---- MODULE Spec2Model ----
(***************************************************************************)
(* Model of the scene graph of foolysh (src/ext/src): the ExtFreeList      *)
(* arena, the reference counted Node handle, the NodeData hierarchy with   *)
(* its dirty propagation, the AABB and the Quadtree.                        *)
(*                                                                         *)
(* C++ indices are 0-based; a sequence s models a std::vector v with       *)
(* v[i] = s[i + 1].  -1 is the code's "none" index throughout.             *)
(***************************************************************************)
EXTENDS Integers, Sequences, FiniteSets, TLC

(***************************************************************************)
(* Bounds of the model.                                                    *)
(***************************************************************************)
MaxNodes == 4
MaxRoots == 1
MaxChildNodes == 3
MaxReparents == 1
MaxWritten == 1
MaxRecords == 2
MaxHandles == 3
MaxDepth == 2
MaxLeafElements == 1
MaxIds == 2
MaxCalls == 4
MaxSceneNodes == 3
MaxQuadNodes == 9
MaxSceneWritten == 2
MaxArenaCalls == 6
MaxRelWritten == 2
MaxRelCalls == 2
MaxSizeWritten == 2
MaxRemoveCalls == 5
MaxListCalls == 134
PopAfter == 126
MaxAnims == 2
MaxAnimNodes == 1
MaxAnimates == 3
MaxMembers == 2
MaxSteps == 2

VARIABLES
    nd,           \* SceneGraphDataHandler::_nd, ExtFreeList<NodeData*>
    node,         \* the NodeData objects the elements of nd point to
    child_nodes,  \* SceneGraphDataHandler::_child_nodes, ExtFreeList<ChildNode>
    handles,      \* the Node handles of the application: their _node_id
    status,       \* "running", or how the program stopped
    last,         \* the last call made and its outcome
    reparents,    \* the number of reparent_to calls made
    written,      \* the fields the mutators were called on: <<node, field>>
    box,          \* an AABB, a split point and the quadrants split returned
    quadtree,     \* the Quadtree object
    calls,        \* the calls made on the Quadtree and their outcomes
    sgdh          \* the SceneGraphDataHandler of node.hpp: one record per node

vars == <<nd, node, child_nodes, handles, status, last, reparents, written,
          box, quadtree, calls, sgdh>>

(***************************************************************************)
(* ExtFreeList (list_t.hpp).                                               *)
(***************************************************************************)
ExtFreeList == [data |-> <<>>, first_free |-> -1, free_count |-> 0]

FreeElement(element) == [element |-> element, next |-> 0, free |-> FALSE]

Size(l) == Len(l.data)

InRange(l, n) == n > -1 /\ n < Size(l)

\* T& operator[](int n)
At(l, n) == l.data[n + 1].element

\* data[n].element = e
Put(l, n, e) == [l EXCEPT !.data[n + 1].element = e]

\* int insert(const T& element): the new list and the index returned
insert_keeps_flag(l, element) ==
    IF l.first_free # -1
    THEN LET index == l.first_free
         IN  [list |-> [l EXCEPT !.first_free = l.data[index + 1].next,
                                 !.data[index + 1].element = element,
                                 !.free_count = l.free_count - 1],
              index |-> index]
    ELSE [list |-> [l EXCEPT !.data = Append(l.data, FreeElement(element))],
          index |-> Size(l)]

insert(l, element) ==
    IF l.first_free # -1
    THEN LET index == l.first_free
         IN  [list |-> [l EXCEPT !.first_free = l.data[index + 1].next,
                                 !.data[index + 1].element = element,
                                 !.data[index + 1].free = FALSE,
                                 !.free_count = l.free_count - 1],
              index |-> index]
    ELSE [list |-> [l EXCEPT !.data = Append(l.data, FreeElement(element))],
          index |-> Size(l)]

\* void clear()
clear(l) == [data |-> <<>>, first_free |-> -1, free_count |-> 0]

\* void erase(int n), n in range
erase_keeps_store(l, n) ==
    [l EXCEPT !.data[n + 1].next = l.first_free,
              !.data[n + 1].free = TRUE,
              !.first_free = n,
              !.free_count = l.free_count + 1]

erase(l, n) ==
    LET e == [l EXCEPT !.data[n + 1].next = l.first_free,
                       !.data[n + 1].free = TRUE,
                       !.first_free = n,
                       !.free_count = l.free_count + 1]
    IN  IF Size(e) = e.free_count THEN clear(e) ELSE e

\* bool active(int n)
active(l, n) ==
    IF n < Size(l) /\ n > -1 THEN ~l.data[n + 1].free ELSE FALSE

(***************************************************************************)
(* Doubles.  Angles are converted between degrees and radians by a         *)
(* multiplication of IEEE-754 binary64 values (node.cpp 891, 925), so an   *)
(* angle is kept as its bit pattern: 16 hexadecimal digits, most           *)
(* significant first (sign, 11 bits of biased exponent, 52 bits of         *)
(* fraction).  Multiply is the correctly rounded product (round to         *)
(* nearest, ties to even) of zero or normal operands with a normal or      *)
(* zero product, which is every product the model forms.                   *)
(***************************************************************************)
HexBits(h) == <<(h \div 8) % 2, (h \div 4) % 2, (h \div 2) % 2, h % 2>>

\* bit i of the pattern, 1 (the sign) to 64 (the last bit of the fraction)
Bit(d, i) == HexBits(d[((i - 1) \div 4) + 1])[((i - 1) % 4) + 1]

RECURSIVE BiasedExponent(_, _)
BiasedExponent(d, i) ==
    IF i > 12 THEN 0 ELSE Bit(d, i) * 2^(12 - i) + BiasedExponent(d, i + 1)

IsZero(d) == \A i \in 2..64 : Bit(d, i) = 0

\* limb j (0 to 4) of the 53-bit significand in base 4096, least significant
\* first; limb 4 holds the implicit leading bit
Limb(d, j) ==
    IF j = 4 THEN 16 + d[4]
    ELSE 256 * d[14 - 3 * j] + 16 * d[15 - 3 * j] + d[16 - 3 * j]

\* column k of the long multiplication: the sum of the limb products
\* Limb(x, i) * Limb(y, k - i) for i from i up
RECURSIVE Column(_, _, _, _)
Column(x, y, k, i) ==
    IF i > 4 THEN 0
    ELSE (IF k - i \in 0..4 THEN Limb(x, i) * Limb(y, k - i) ELSE 0)
         + Column(x, y, k, i + 1)

\* the 10 limbs of the product of the significands, least significant first
RECURSIVE ProductLimbs(_, _, _, _)
ProductLimbs(x, y, k, carry) ==
    IF k > 9 THEN <<>>
    ELSE LET t == Column(x, y, k, 0) + carry
         IN  <<t % 4096>> \o ProductLimbs(x, y, k + 1, t \div 4096)

\* bit i of the product, 1 (the least significant) to 106
ProductBit(P, i) == (P[((i - 1) \div 12) + 1] \div 2^((i - 1) % 12)) % 2

\* bits + 1, least significant first; all ones wrap to all zeros
RECURSIVE Increment(_, _)
Increment(bits, k) ==
    IF k > Len(bits) THEN bits
    ELSE IF bits[k] = 0 THEN [bits EXCEPT ![k] = 1]
    ELSE Increment([bits EXCEPT ![k] = 0], k + 1)

\* the pattern of sign, biased exponent and significand (least significant
\* first; its bit 53 is implicit)
Pack(sign, exponent, significand) ==
    LET b == [i \in 1..64 |->
                IF i = 1 THEN sign
                ELSE IF i < 13 THEN (exponent \div 2^(12 - i)) % 2
                ELSE significand[65 - i]]
    IN  [j \in 1..16 |-> 8 * b[4 * j - 3] + 4 * b[4 * j - 2]
                         + 2 * b[4 * j - 1] + b[4 * j]]

\* double operator*(double, double)
Multiply(x, y) ==
    LET sign == (Bit(x, 1) + Bit(y, 1)) % 2
        P == ProductLimbs(x, y, 0, 0)
        top == IF ProductBit(P, 106) = 1 THEN 106 ELSE 105
        kept == [k \in 1..53 |-> ProductBit(P, top - 53 + k)]
        up == /\ ProductBit(P, top - 53) = 1
              /\ kept[1] = 1 \/ \E i \in 1..(top - 54) : ProductBit(P, i) = 1
        rounded == IF up THEN Increment(kept, 1) ELSE kept
        carried == up /\ \A k \in 1..53 : kept[k] = 1
        exponent == BiasedExponent(x, 2) + BiasedExponent(y, 2) - 1023
                    + (IF top = 106 THEN 1 ELSE 0) + (IF carried THEN 1 ELSE 0)
    IN  IF IsZero(x) \/ IsZero(y)
        THEN Pack(sign, 0, [k \in 1..53 |-> 0])
        ELSE Pack(sign, exponent, rounded)

\* constexpr double to_deg = 180.0 / 3.14159265358979323846;
to_deg == <<4, 0, 4, 12, 10, 5, 13, 12, 1, 10, 6, 3, 12, 1, 15, 8>>
\* constexpr double to_rad = 3.14159265358979323846 / 180.0;
to_rad == <<3, 15, 9, 1, 13, 15, 4, 6, 10, 2, 5, 2, 9, 13, 3, 9>>

\* 0.0 and 30.0
Zero == <<0, 0, 0, 0, 0, 0, 0, 0, 0, 0, 0, 0, 0, 0, 0, 0>>
Thirty == <<4, 0, 3, 14, 0, 0, 0, 0, 0, 0, 0, 0, 0, 0, 0, 0>>

\* The angles of the model, closed under the conversion to radians and
\* back, and the products the conversions form on them.
Angles == {Zero, Thirty, Multiply(Multiply(Thirty, to_rad), to_deg)}

InRadians == {<<a, Multiply(a, to_rad)>> : a \in Angles}

InDegrees == {<<p[2], Multiply(p[2], to_deg)>> : p \in InRadians}

Image(table, x) == (CHOOSE p \in table : p[1] = x)[2]

(***************************************************************************)
(* NodeData (node.cpp).  The arguments of the mutators are drawn from the  *)
(* sets below: the constructor's default and one other value, and for the  *)
(* scale a value set_scale rejects.                                        *)
(***************************************************************************)
TOP_LEFT == 0
CENTER == 4

Points == {<<0, 0>>, <<16, 0>>}
Scales == {<<1, 1>>, <<2, 1>>, <<0, 1>>}
Depths == {1, 2}
Origins == {TOP_LEFT, CENTER}

NodeData ==
    [_dirty |-> TRUE, _isnew |-> TRUE, _distance_relative |-> FALSE,
     _hidden |-> FALSE, _parent |-> -1, _first_child |-> -1,
     _angle |-> Zero, _depth |-> 1, _origin |-> TOP_LEFT, _ref_count |-> 1,
     _position |-> <<0, 0>>, _scale |-> <<1, 1>>, _rot_center |-> <<0, 0>>,
     _size |-> <<0, 0>>, _r_position |-> <<0, 0>>, _r_scale |-> <<1, 1>>,
     _r_size |-> <<0, 0>>, _r_angle |-> Zero, _r_depth |-> 1,
     _aabb |-> [x |-> 0, y |-> 0, hw |-> 1, hh |-> 1]]

\* *sgdh._nd[n]: the NodeData the element of slot n points to
ND(n) == node[n + 1]

\* The objects after a call that changed nd to m: an appended slot points
\* to a new NodeData, a cleared vector drops every pointer.
Objects(objs, m) ==
    IF Size(m) = 0 THEN <<>>
    ELSE IF Size(m) > Len(objs) THEN Append(objs, NodeData)
    ELSE objs

(***************************************************************************)
(* Node handles (node.cpp 450-524).  A handle variable of the application  *)
(* is live between its construction and its destruction and holds          *)
(* _node_id.                                                               *)
(***************************************************************************)
Handles == 1..MaxHandles
NoHandle == [live |-> FALSE, _node_id |-> -1]
Handle(n) == [live |-> TRUE, _node_id |-> n]
Live(h) == handles[h].live

Call(op, a, res, index) == [op |-> op, a |-> a, res |-> res, index |-> index]

\* Node::Node(SceneGraphDataHandler&)
Node_ctor(h) ==
    /\ status = "running"
    /\ ~Live(h)
    /\ Size(nd) < MaxRecords \/ nd.first_free # -1
    /\ LET r == insert(nd, "NodeData*")
       IN  /\ nd' = r.list
           /\ node' = [Objects(node, r.list) EXCEPT ![r.index + 1] = NodeData]
           /\ handles' = [handles EXCEPT ![h] = Handle(r.index)]
           /\ last' = Call("Node", h,
                           IF nd.first_free # -1 THEN "reused" ELSE "new",
                           r.index)
    /\ UNCHANGED <<sgdh, child_nodes, status, reparents, written, box, quadtree, calls>>

dtor_erases_shared(n) == ND(n)._ref_count >= 1

\* ~Node(): whether the destructor erases the record (nd._ref_count == 1)
dtor_erases(n) == ND(n)._ref_count = 1

\* Node::~Node()
Node_dtor(h) ==
    /\ status = "running"
    /\ Live(h)
    /\ LET n == handles[h]._node_id
       IN  IF n > -1
           THEN IF ~active(nd, n)
                THEN \* _get_node_data throws in a destructor: std::terminate
                     /\ status' = "terminated"
                     /\ last' = Call("~Node", h, "terminate", n)
                     /\ UNCHANGED <<nd, node, handles>>
                ELSE /\ IF dtor_erases(n)
                        THEN /\ nd' = erase(nd, n)
                             /\ node' = Objects(node, nd')
                        ELSE /\ node' = [node EXCEPT ![n + 1]._ref_count = @ - 1]
                             /\ nd' = nd
                     /\ handles' = [handles EXCEPT ![h] = NoHandle]
                     /\ last' = Call("~Node", h, "ok", n)
                     /\ status' = status
           ELSE /\ handles' = [handles EXCEPT ![h] = NoHandle]
                /\ last' = Call("~Node", h, "ok", n)
                /\ UNCHANGED <<nd, node, status>>
    /\ UNCHANGED <<sgdh, child_nodes, reparents, written, box, quadtree, calls>>

\* Node::Node(const Node& other)
Node_copy_ctor(h, other) ==
    /\ status = "running"
    /\ ~Live(h) /\ Live(other)
    /\ LET n == handles[other]._node_id
       IN  IF ~active(nd, n)
           THEN \* _get_node_data throws: no handle is constructed
                /\ last' = Call("Node(const&)", h, "throw", n)
                /\ UNCHANGED <<node, handles>>
           ELSE /\ node' = [node EXCEPT ![n + 1]._ref_count = @ + 1]
                /\ handles' = [handles EXCEPT ![h] = Handle(n)]
                /\ last' = Call("Node(const&)", h, "ok", n)
    /\ UNCHANGED <<sgdh, nd, child_nodes, status, reparents, written, box, quadtree, calls>>

\* Node::Node(Node&& other) noexcept
Node_move_ctor(h, other) ==
    /\ status = "running"
    /\ ~Live(h) /\ Live(other)
    /\ handles' = [handles EXCEPT ![h] = handles[other], ![other] = Handle(-1)]
    /\ last' = Call("Node(&&)", h, "ok", handles[other]._node_id)
    /\ UNCHANGED <<sgdh, nd, node, child_nodes, status, reparents, written, box, quadtree, calls>>

\* The body shared by both assignment operators (node.cpp 499-507, 515-523):
\* the objects and this handle's _node_id after it, and whether
\* _get_node_data threw.
assign(h, other) ==
    LET old == handles[h]._node_id
        n == handles[other]._node_id
        dropped == IF active(nd, old)
                   THEN [node EXCEPT ![old + 1]._ref_count = @ - 1]
                   ELSE node
    IN  IF ~active(nd, n)
        THEN [node |-> dropped, id |-> n, threw |-> TRUE]
        ELSE [node |-> [dropped EXCEPT ![n + 1]._ref_count = @ + 1],
              id |-> n, threw |-> FALSE]

\* Node& Node::operator=(const Node& other)
Node_copy_assign(h, other) ==
    /\ status = "running"
    /\ Live(h) /\ Live(other)
    /\ LET r == assign(h, other)
       IN  /\ node' = r.node
           /\ handles' = [handles EXCEPT ![h] = Handle(r.id)]
           /\ last' = Call("operator=(const&)", h,
                           IF r.threw THEN "throw" ELSE "ok",
                           handles[h]._node_id)
    /\ UNCHANGED <<sgdh, nd, child_nodes, status, reparents, written, box, quadtree, calls>>

\* Node& Node::operator=(Node&& other) noexcept
Node_move_assign(h, other) ==
    /\ status = "running"
    /\ Live(h) /\ Live(other)
    /\ LET r == assign(h, other)
       IN  /\ node' = r.node
           /\ handles' = [handles EXCEPT ![h] = Handle(r.id)]
           /\ status' = IF r.threw THEN "terminated" ELSE status
           /\ last' = Call("operator=(&&)", h,
                           IF r.threw THEN "terminate" ELSE "ok",
                           handles[h]._node_id)
    /\ UNCHANGED <<sgdh, nd, child_nodes, reparents, written, box, quadtree, calls>>

InitHandle ==
    /\ nd = ExtFreeList
    /\ node = <<>>
    /\ child_nodes = ExtFreeList
    /\ handles = [h \in Handles |-> NoHandle]
    /\ status = "running"
    /\ last = Call("init", 0, "ok", -1)
    /\ reparents = 0
    /\ written = {}
    /\ box = <<>>
    /\ quadtree = <<>>
    /\ calls = <<>>
    /\ sgdh = <<>>

NextHandle ==
    \/ \E h \in Handles : Node_ctor(h)
    \/ \E h \in Handles : Node_dtor(h)
    \/ \E h, o \in Handles : Node_copy_ctor(h, o)
    \/ \E h, o \in Handles : Node_move_ctor(h, o)
    \/ \E h, o \in Handles : Node_copy_assign(h, o)
    \/ \E h, o \in Handles : Node_move_assign(h, o)

SpecHandle == InitHandle /\ [][NextHandle]_vars

(***************************************************************************)
(* The hierarchy (node.cpp 181-265, 529-576).  The operators below take    *)
(* the NodeData objects and the child-node arena and give them back with   *)
(* an outcome: "ok", "throw" (an exception leaves the call), "hang" (a     *)
(* loop of the code never ends) or "undefined" (the code went on after an  *)
(* out-of-bounds access).                                                  *)
(***************************************************************************)
ChildNode(node_id) == [node_id |-> node_id, next |-> -1]

Result(nodes, cn, out) == [node |-> nodes, cn |-> cn, out |-> out]

RECURSIVE SetDirty(_, _)
SetDirty(nodes, S) ==
    IF S = {} THEN nodes
    ELSE LET n == CHOOSE x \in S : TRUE
         IN  SetDirty([nodes EXCEPT ![n + 1]._dirty = TRUE], S \ {n})

RECURSIVE SetClean(_, _)
SetClean(nodes, S) ==
    IF S = {} THEN nodes
    ELSE LET n == CHOOSE x \in S : TRUE
         IN  SetClean([nodes EXCEPT ![n + 1]._dirty = FALSE,
                                    ![n + 1]._isnew = FALSE], S \ {n})

\* The nodes visited by `while (parent > -1) parent = nd._parent` from p.
RECURSIVE Up(_, _, _)
Up(nodes, p, seen) ==
    IF p = -1 \/ p \in seen THEN seen
    ELSE Up(nodes, nodes[p + 1]._parent, seen \cup {p})

\* Whether that loop ends: it does not when the parent links cycle.
RECURSIVE UpEnds(_, _, _)
UpEnds(nodes, p, seen) ==
    IF p = -1 THEN TRUE
    ELSE IF p \in seen THEN FALSE
    ELSE UpEnds(nodes, nodes[p + 1]._parent, seen \cup {p})

\* What the loop of _propagate_dirty pushes after popping child node c:
\* cnp.next and nd._first_child.
Pushed(nodes, cn, c) ==
    IF ~InRange(cn, c) \/ At(cn, c).node_id + 1 \notin 1..Len(nodes) THEN {}
    ELSE {At(cn, c).next, nodes[At(cn, c).node_id + 1]._first_child} \ {-1}

\* Every child node the loop pops, starting with the set S on the stack.
RECURSIVE Popped(_, _, _)
Popped(nodes, cn, S) ==
    LET T == S \cup UNION {Pushed(nodes, cn, c) : c \in S}
    IN  IF T = S THEN S ELSE Popped(nodes, cn, T)

\* The loop reads outside child_nodes or _nd.
Wild(nodes, cn, S) ==
    \E c \in S : ~InRange(cn, c) \/ At(cn, c).node_id + 1 \notin 1..Len(nodes)

\* The stack never empties: some popped child node is pushed again.
Endless(nodes, cn, S) ==
    \E c \in S : c \in Popped(nodes, cn, Pushed(nodes, cn, c))

\* void NodeData::_propagate_dirty(SceneGraphDataHandler&)
_propagate_dirty(nodes, cn, n) ==
    LET up == Up(nodes, nodes[n + 1]._parent, {})
        fc == nodes[n + 1]._first_child
        popped == IF fc > -1 THEN Popped(nodes, cn, {fc}) ELSE {}
        down == {At(cn, c).node_id : c \in {d \in popped : InRange(cn, d)}}
    IN  IF ~UpEnds(nodes, nodes[n + 1]._parent, {})
        THEN Result(SetDirty(nodes, up), cn, "hang")
        ELSE IF Wild(nodes, cn, popped)
        THEN Result(SetDirty(nodes, up), cn, "undefined")
        ELSE IF Endless(nodes, cn, popped)
        THEN Result(SetDirty(nodes, up \cup down), cn, "hang")
        ELSE Result(SetDirty(nodes, up \cup down \cup {n}), cn, "ok")

\* The child node at which `while (next != -1)` of _insert_child stops, -2
\* when it never stops.
RECURSIVE LastChildNode(_, _, _)
LastChildNode(cn, current, seen) ==
    LET next == At(cn, current).next
    IN  IF next = -1 THEN current
        ELSE IF next \in seen \/ ~InRange(cn, next) THEN -2
        ELSE LastChildNode(cn, next, seen \cup {next})

\* void NodeData::_insert_child(SceneGraphDataHandler&, const int node_id)
_insert_child(nodes, cn, p, node_id) ==
    LET r == insert(cn, ChildNode(node_id))
        fc == nodes[p + 1]._first_child
    IN  IF fc = -1
        THEN _propagate_dirty([nodes EXCEPT ![p + 1]._first_child = r.index],
                              r.list, p)
        ELSE LET current == LastChildNode(r.list, fc, {fc})
             IN  IF current = -2 THEN Result(nodes, r.list, "hang")
                 ELSE _propagate_dirty(
                        nodes,
                        Put(r.list, current,
                            [At(r.list, current) EXCEPT !.next = r.index]),
                        p)

\* The while loop of _remove_child (node.cpp 222-229).  cnp is a reference
\* to child node fc: `cnp = cnps[cnp.next]` copies into that child node.
\* The loop condition reads cnps[cnp.next] before cnp.next is tested; with
\* cnp.next == -1 that is a read before the vector's storage: outcome "ub",
\* which the caller resolves to one of UB.
RECURSIVE _remove_child_loop(_, _, _, _, _)
_remove_child_loop(cn, fc, cnp_id, node_id, fuel) ==
    LET next == At(cn, fc).next
    IN  IF ~InRange(cn, next)
        THEN [cn |-> cn, cnp_id |-> cnp_id, out |-> "ub"]
        ELSE IF At(cn, next).node_id # node_id
        THEN IF ~active(cn, next)
             THEN [cn |-> cn, cnp_id |-> cnp_id, out |-> "throw"]
             ELSE IF fuel = 0
             THEN [cn |-> cn, cnp_id |-> cnp_id, out |-> "hang"]
             ELSE _remove_child_loop(Put(cn, fc, At(cn, next)), fc,
                                     At(cn, next).next, node_id, fuel - 1)
        ELSE [cn |-> Put(cn, fc, [At(cn, fc) EXCEPT !.next = At(cn, next).next]),
              cnp_id |-> cnp_id, out |-> "ok"]

\* void NodeData::_remove_child(SceneGraphDataHandler&, const int node_id)
_remove_child(nodes, cn, p, node_id) ==
    LET fc == nodes[p + 1]._first_child
    IN  IF fc = -1 THEN Result(nodes, cn, "throw")
        ELSE IF ~active(cn, fc) THEN Result(nodes, cn, "throw")
        ELSE IF At(cn, fc).node_id = node_id
        THEN Result([nodes EXCEPT ![p + 1]._first_child = At(cn, fc).next],
                    erase(cn, fc), "ok")
        ELSE IF At(cn, fc).next = -1 \/ ~active(cn, At(cn, fc).next)
        THEN Result(nodes, cn, "throw")
        ELSE LET r == _remove_child_loop(cn, fc, fc, node_id, Size(cn))
             IN  IF r.out = "ok"
                 THEN Result(nodes, erase(r.cn, r.cnp_id), "ok")
                 ELSE Result(nodes, r.cn, r.out)

ancestor_check_parent_only(nodes, n, parent) ==
    IF nodes[parent + 1]._parent = n THEN "throw" ELSE "ok"

\* The walk up from the new parent in reparent_to (node.cpp 555-563).
RECURSIVE ancestor_walk(_, _, _, _)
ancestor_walk(nodes, n, _p_id, seen) ==
    IF _p_id = -1 THEN "ok"
    ELSE IF _p_id = n THEN "throw"
    ELSE IF ~active(nd, _p_id) THEN "throw"
    ELSE IF _p_id \in seen THEN "hang"
    ELSE ancestor_walk(nodes, n, nodes[_p_id + 1]._parent, seen \cup {_p_id})

ancestor_check(nodes, n, parent) ==
    ancestor_walk(nodes, n, nodes[parent + 1]._parent, {})

\* void Node::reparent_to(const int parent).  _sgdh._nd[parent] is read with
\* no test: outside the vector the read is undefined, and in an erased slot
\* it gives the NodeData that erase left there.
reparent_to(nodes, cn, n, parent) ==
    LET chk == ancestor_check(nodes, n, parent)
        old == nodes[n + 1]._parent
        rm == IF old > -1 THEN _remove_child(nodes, cn, old, n)
              ELSE Result(nodes, cn, "ok")
    IN  IF ~InRange(nd, parent) THEN Result(nodes, cn, "undefined")
        ELSE IF chk # "ok" THEN Result(nodes, cn, chk)
        ELSE IF ~active(nd, n) THEN Result(nodes, cn, "throw")
        ELSE IF rm.out # "ok" THEN rm
        ELSE LET ins == _insert_child([rm.node EXCEPT ![n + 1]._parent = parent],
                                      rm.cn, parent, n)
             IN  IF ins.out # "ok" THEN ins
                 ELSE _propagate_dirty(ins.node, ins.cn, n)

\* The nodes of the child list of p, as the loop of _traverse (node.cpp
\* 86-91) reads them; Endless/Wild tell whether that loop ends.
RECURSIVE ChildList(_, _, _)
ChildList(cn, c, seen) ==
    IF c = -1 \/ c \in seen \/ ~InRange(cn, c) THEN {}
    ELSE {At(cn, c).node_id} \cup ChildList(cn, At(cn, c).next, seen \cup {c})

RECURSIVE ChildListEnds(_, _, _)
ChildListEnds(cn, c, seen) ==
    IF c = -1 THEN TRUE
    ELSE IF c \in seen \/ ~InRange(cn, c) THEN FALSE
    ELSE ChildListEnds(cn, At(cn, c).next, seen \cup {c})

\* The dirty nodes _traverse pops and updates: the root, and every dirty
\* node of the child list of a node it updates.
RECURSIVE Updated(_, _, _)
Updated(nodes, cn, V) ==
    LET W == V \cup {m \in UNION {ChildList(cn, nodes[v + 1]._first_child, {})
                                    : v \in V} : nodes[m + 1]._dirty}
    IN  IF W = V THEN V ELSE Updated(nodes, cn, W)

Root(nodes, n) ==
    CHOOSE r \in Up(nodes, n, {}) : nodes[r + 1]._parent \notin 0..(Len(nodes) - 1)
                                     \/ ~UpEnds(nodes, n, {})

\* bool NodeData::_traverse(SceneGraphDataHandler&): the dirty walk and the
\* flags _update_relative clears (node.cpp 67-106, 383).
_traverse(nodes, cn, n) ==
    LET root == Root(nodes, n)
        V == Updated(nodes, cn, {root})
    IN  IF ~UpEnds(nodes, n, {}) THEN Result(nodes, cn, "hang")
        ELSE IF ~nodes[root + 1]._dirty THEN Result(nodes, cn, "false")
        ELSE IF \E v \in V : ~ChildListEnds(cn, nodes[v + 1]._first_child, {})
        THEN Result(nodes, cn, "hang")
        ELSE Result(SetClean(nodes, V), cn, "true")

(***************************************************************************)
(* The mutators (node.cpp 599-618, 696-703, 798-808, 889-899, 925,         *)
(* 954-961, 988-994, 1027-1033, 1126-1132): compare, assign, propagate.    *)
(***************************************************************************)
\* NodeData& Node::_get_node_data(const int node_id): whether it returns
_get_node_data(n) == active(nd, n)

\* void Node::hide()
hide(nodes, cn, n) ==
    IF ~_get_node_data(n) THEN Result(nodes, cn, "throw")
    ELSE IF ~nodes[n + 1]._hidden
    THEN _propagate_dirty([nodes EXCEPT ![n + 1]._hidden = TRUE], cn, n)
    ELSE Result(nodes, cn, "ok")

\* void Node::show()
show(nodes, cn, n) ==
    IF ~_get_node_data(n) THEN Result(nodes, cn, "throw")
    ELSE IF nodes[n + 1]._hidden
    THEN _propagate_dirty([nodes EXCEPT ![n + 1]._hidden = FALSE], cn, n)
    ELSE Result(nodes, cn, "ok")

\* void Node::set_pos(const double x, const double y)
set_pos(nodes, cn, n, x, y) ==
    IF ~_get_node_data(n) THEN Result(nodes, cn, "throw")
    ELSE IF nodes[n + 1]._position[1] # x \/ nodes[n + 1]._position[2] # y
    THEN _propagate_dirty([nodes EXCEPT ![n + 1]._position = <<x, y>>], cn, n)
    ELSE Result(nodes, cn, "ok")

\* set_scale that tests sx and sy after it has stored them
set_scale_checking_late(nodes, cn, n, sx, sy) ==
    IF ~_get_node_data(n) THEN Result(nodes, cn, "throw")
    ELSE IF sx <= 0 \/ sy <= 0
    THEN [_propagate_dirty([nodes EXCEPT ![n + 1]._scale = <<sx, sy>>], cn, n)
             EXCEPT !.out = "throw"]
    ELSE IF nodes[n + 1]._scale[1] # sx \/ nodes[n + 1]._scale[2] # sy
    THEN _propagate_dirty([nodes EXCEPT ![n + 1]._scale = <<sx, sy>>], cn, n)
    ELSE Result(nodes, cn, "ok")

\* void Node::set_scale(const double sx, const double sy)
set_scale(nodes, cn, n, sx, sy) ==
    IF sx <= 0 \/ sy <= 0 THEN Result(nodes, cn, "throw")
    ELSE IF ~_get_node_data(n) THEN Result(nodes, cn, "throw")
    ELSE IF nodes[n + 1]._scale[1] # sx \/ nodes[n + 1]._scale[2] # sy
    THEN _propagate_dirty([nodes EXCEPT ![n + 1]._scale = <<sx, sy>>], cn, n)
    ELSE Result(nodes, cn, "ok")

\* double Node::get_angle(bool radians)
get_angle(nodes, n, radians) ==
    IF radians THEN Image(InRadians, nodes[n + 1]._angle)
    ELSE nodes[n + 1]._angle

\* The angle set_angle compares and stores: a, or a * to_deg.
Degrees(a, radians) == IF radians THEN Image(InDegrees, a) ELSE a

\* void Node::set_angle(double a, bool radians)
set_angle(nodes, cn, n, a, radians) ==
    IF ~_get_node_data(n) THEN Result(nodes, cn, "throw")
    ELSE IF Degrees(a, radians) # nodes[n + 1]._angle
    THEN _propagate_dirty(
            [nodes EXCEPT ![n + 1]._angle = Degrees(a, radians)], cn, n)
    ELSE Result(nodes, cn, "ok")

\* void Node::set_rotation_center(const double x, const double y)
set_rotation_center(nodes, cn, n, x, y) ==
    IF ~_get_node_data(n) THEN Result(nodes, cn, "throw")
    ELSE IF nodes[n + 1]._rot_center[1] # x \/ nodes[n + 1]._rot_center[2] # y
    THEN _propagate_dirty([nodes EXCEPT ![n + 1]._rot_center = <<x, y>>], cn, n)
    ELSE Result(nodes, cn, "ok")

set_depth_without_compare(nodes, cn, n, d) ==
    IF ~_get_node_data(n) THEN Result(nodes, cn, "throw")
    ELSE _propagate_dirty([nodes EXCEPT ![n + 1]._depth = d], cn, n)

\* void Node::set_depth(const int d)
set_depth(nodes, cn, n, d) ==
    IF ~_get_node_data(n) THEN Result(nodes, cn, "throw")
    ELSE IF nodes[n + 1]._depth # d
    THEN _propagate_dirty([nodes EXCEPT ![n + 1]._depth = d], cn, n)
    ELSE Result(nodes, cn, "ok")

\* void Node::set_origin(Origin o)
set_origin(nodes, cn, n, o) ==
    IF ~_get_node_data(n) THEN Result(nodes, cn, "throw")
    ELSE IF nodes[n + 1]._origin # o
    THEN _propagate_dirty([nodes EXCEPT ![n + 1]._origin = o], cn, n)
    ELSE Result(nodes, cn, "ok")

\* void Node::set_distance_relative(const bool v)
set_distance_relative(nodes, cn, n, v) ==
    IF ~_get_node_data(n) THEN Result(nodes, cn, "throw")
    ELSE IF v # nodes[n + 1]._distance_relative
    THEN _propagate_dirty([nodes EXCEPT ![n + 1]._distance_relative = v], cn, n)
    ELSE Result(nodes, cn, "ok")

(***************************************************************************)
(* The actions of the scene graph.  The application keeps one handle per   *)
(* node for the whole run, so a node is named by its index.                *)
(***************************************************************************)
NodeIds == 0..(Size(nd) - 1)

\* What a read outside the vector can lead to: the value read differs from
\* node_id and the test in the loop throws, or anything else.
UB == {"throw", "undefined"}

Outcomes(out) == IF out = "ub" THEN UB ELSE {out}

Stopped(out) ==
    IF out = "hang" THEN "hung"
    ELSE IF out = "undefined" THEN "undefined" ELSE "running"

\* Node n(sgdh);
NewNode ==
    /\ status = "running"
    /\ Size(nd) < MaxNodes
    /\ Cardinality({n \in NodeIds : ND(n)._parent = -1}) < MaxRoots
    /\ LET r == insert(nd, "NodeData*")
       IN  /\ nd' = r.list
           /\ node' = [Objects(node, r.list) EXCEPT ![r.index + 1] = NodeData]
           /\ last' = Call("Node", r.index, "ok", -1)
    /\ UNCHANGED <<sgdh, child_nodes, handles, status, reparents, written, box, quadtree, calls>>

\* Node Node::attach_node()
attach_node(n) ==
    /\ status = "running"
    /\ Size(nd) < MaxNodes
    /\ LET r == insert(nd, "NodeData*")
           c == r.index
           nodes == [Objects(node, r.list) EXCEPT
                        ![c + 1] = [NodeData EXCEPT
                            !._parent = n,
                            !._distance_relative = ND(n)._distance_relative,
                            !._origin = ND(n)._origin]]
           ins == _insert_child(nodes, child_nodes, n, c)
           res == IF ins.out = "ok"
                  THEN _propagate_dirty(ins.node, ins.cn, n) ELSE ins
       IN  /\ nd' = r.list
           /\ \E done \in {res} :
                /\ node' = done.node
                /\ child_nodes' = done.cn
                /\ Size(done.cn) <= MaxChildNodes
                /\ status' = Stopped(done.out)
                /\ last' = Call("attach_node", n, done.out, c)
    /\ UNCHANGED <<sgdh, handles, reparents, written, box, quadtree, calls>>

\* void Node::reparent_to(Node& parent)
ReparentTo(n, parent) ==
    /\ status = "running"
    /\ reparents < MaxReparents
    /\ reparents' = reparents + 1
    /\ \E res \in {reparent_to(node, child_nodes, n, parent)} :
           /\ node' = res.node
           /\ child_nodes' = res.cn
           /\ Size(res.cn) <= MaxChildNodes
           /\ \E out \in Outcomes(res.out) :
                /\ status' = Stopped(out)
                /\ last' = Call("reparent_to", n, out, parent)
    /\ UNCHANGED <<sgdh, nd, handles, written, box, quadtree, calls>>

\* bool Node::traverse()
Traverse(n) ==
    /\ status = "running"
    /\ \E res \in {_traverse(node, child_nodes, n)} :
           /\ node' = res.node
           /\ child_nodes' = res.cn
           /\ status' = Stopped(res.out)
           /\ last' = Call("traverse", n, res.out, -1)
    /\ UNCHANGED <<sgdh, nd, handles, reparents, written, box, quadtree, calls>>

\* A mutator call `op` on field `field` of node n with result res of the
\* operator above.  `same` tells whether the value asked for is the stored
\* one; last.res is "same", "changed" or "throw".
Mutate(op, n, field, same, res) ==
    /\ status = "running"
    /\ Cardinality(written \cup {<<n, field>>}) <= MaxWritten
    /\ written' = written \cup {<<n, field>>}
    /\ \E done \in {res} :
           /\ node' = done.node
           /\ child_nodes' = done.cn
           /\ status' = Stopped(done.out)
           /\ last' = Call(op, n, IF done.out = "throw" THEN "throw"
                                  ELSE IF same THEN "same" ELSE "changed", -1)
    /\ UNCHANGED <<sgdh, nd, handles, reparents, box, quadtree, calls>>

Hide(n) ==
    Mutate("hide", n, "_hidden", ND(n)._hidden, hide(node, child_nodes, n))

Show(n) ==
    Mutate("show", n, "_hidden", ~ND(n)._hidden, show(node, child_nodes, n))

SetPos(n) ==
    \E p \in Points :
        Mutate("set_pos", n, "_position", p = ND(n)._position,
               set_pos(node, child_nodes, n, p[1], p[2]))

SetScale(n) ==
    \E s \in Scales :
        Mutate("set_scale", n, "_scale", s = ND(n)._scale,
               set_scale(node, child_nodes, n, s[1], s[2]))

\* set_angle(a) with a in degrees, and set_angle(get_angle(true), true)
SetAngle(n) ==
    \E radians \in BOOLEAN :
        \E a \in IF radians THEN {get_angle(node, n, TRUE)}
                  ELSE {Zero, Thirty} :
            Mutate("set_angle", n, "_angle", Degrees(a, radians) = ND(n)._angle,
                   set_angle(node, child_nodes, n, a, radians))

SetRotationCenter(n) ==
    \E c \in Points :
        Mutate("set_rotation_center", n, "_rot_center", c = ND(n)._rot_center,
               set_rotation_center(node, child_nodes, n, c[1], c[2]))

SetDepth(n) ==
    \E d \in Depths :
        Mutate("set_depth", n, "_depth", d = ND(n)._depth,
               set_depth(node, child_nodes, n, d))

SetOrigin(n) ==
    \E o \in Origins :
        Mutate("set_origin", n, "_origin", o = ND(n)._origin,
               set_origin(node, child_nodes, n, o))

SetDistanceRelative(n) ==
    \E v \in BOOLEAN :
        Mutate("set_distance_relative", n, "_distance_relative",
               v = ND(n)._distance_relative,
               set_distance_relative(node, child_nodes, n, v))

Mutators ==
    {"hide", "show", "set_pos", "set_scale", "set_angle",
     "set_rotation_center", "set_depth", "set_origin", "set_distance_relative"}

Init ==
    /\ nd = ExtFreeList
    /\ node = <<>>
    /\ child_nodes = ExtFreeList
    /\ handles = [h \in Handles |-> NoHandle]
    /\ status = "running"
    /\ last = Call("init", 0, "ok", -1)
    /\ reparents = 0
    /\ written = {}
    /\ box = <<>>
    /\ quadtree = <<>>
    /\ calls = <<>>
    /\ sgdh = <<>>

Next ==
    \/ NewNode
    \/ \E n \in NodeIds : attach_node(n)
    \/ \E n, p \in NodeIds : ReparentTo(n, p)
    \/ \E n \in NodeIds : Traverse(n)
    \/ \E n \in NodeIds : Hide(n)
    \/ \E n \in NodeIds : Show(n)
    \/ \E n \in NodeIds : SetPos(n)
    \/ \E n \in NodeIds : SetScale(n)
    \/ \E n \in NodeIds : SetAngle(n)
    \/ \E n \in NodeIds : SetRotationCenter(n)
    \/ \E n \in NodeIds : SetDepth(n)
    \/ \E n \in NodeIds : SetOrigin(n)
    \/ \E n \in NodeIds : SetDistanceRelative(n)

Spec == Init /\ [][Next]_vars

(***************************************************************************)
(* AABB (aabb.cpp): a centre and two half extents.  A double is an integer *)
(* here; the coordinates drawn are even often enough for every halving the *)
(* code makes to be exact, as it is on doubles.                            *)
(***************************************************************************)
TL == 0
TR == 1
BL == 2
BR == 3
Quadrants == {TL, TR, BL, BR}

AABB(_x, _y, _hw, _hh) == [x |-> _x, y |-> _y, hw |-> _hw, hh |-> _hh]

AABB_default == AABB(0, 0, 1, 1)

\* v / 2.0
Half(v) == v \div 2

inside_aabb(b, aabb) ==
    LET l == b.x - b.hw
        r == b.x + b.hw
        t == b.y - b.hh
        bt == b.y + b.hh
    IN  /\ l <= aabb.x - aabb.hw
        /\ r >= aabb.x + aabb.hw
        /\ t <= aabb.y - aabb.hh
        /\ bt >= aabb.y + aabb.hh

inside(b, _x, _y) ==
    LET l == b.x - b.hw
        r == b.x + b.hw
        t == b.y - b.hh
        bt == b.y + b.hh
    IN  l <= _x /\ r >= _x /\ t <= _y /\ bt >= _y

overlap(b, aabb) ==
    LET l == b.x - b.hw
        r == b.x + b.hw
        l_o == aabb.x - aabb.hw
        r_o == aabb.x + aabb.hw
        t == b.y - b.hh
        bt == b.y + b.hh
        t_o == aabb.y - aabb.hh
        b_o == aabb.y + aabb.hh
    IN  /\ \/ (l <= l_o /\ r >= l_o)
           \/ (l <= r_o /\ r >= r_o)
           \/ (l_o <= l /\ r_o >= l)
           \/ (l_o <= r /\ r_o >= r)
        /\ \/ (t <= t_o /\ bt >= t_o)
           \/ (t <= b_o /\ bt >= b_o)
           \/ (t_o <= t /\ b_o >= t)
           \/ (t_o <= bt /\ b_o >= bt)

\* split(double _x, double _y, Quadrant _q): h is computed from hw
split(b, _x, _y, _q) ==
    IF ~inside(b, _x, _y) THEN AABB_default
    ELSE CASE _q = TL ->
                LET w == Half(_x - (b.x - b.hw))
                    h == Half(_y - (b.y - b.hw))
                IN  AABB(_x - w, _y - h, w, h)
           [] _q = TR ->
                LET w == Half((b.x + b.hw) - _x)
                    h == Half(_y - (b.y - b.hw))
                IN  AABB(_x + w, _y - h, w, h)
           [] _q = BL ->
                LET w == Half(_x - (b.x - b.hw))
                    h == Half((b.y + b.hw) - _y)
                IN  AABB(_x - w, _y + h, w, h)
           [] _q = BR ->
                LET w == Half((b.x + b.hw) - _x)
                    h == Half((b.y + b.hw) - _y)
                IN  AABB(_x + w, _y + h, w, h)
           [] OTHER -> AABB_default

\* split(Quadrant _q)
split_center(b, _q) == split(b, b.x, b.y, _q)

find_quadrant(b, _x, _y) ==
    IF _x < b.x THEN (IF _y < b.y THEN TL ELSE BL)
                ELSE (IF _y < b.y THEN TR ELSE BR)

(***************************************************************************)
(* The boxes and the split points split is applied to: even coordinates,   *)
(* square and non-square boxes, points inside, on the border and outside.  *)
(***************************************************************************)
Even == {-4, -2, 0, 2, 4}

SplitBoxes ==
    {AABB(0, 0, 2, 2), AABB(0, 0, 4, 2), AABB(0, 0, 2, 4), AABB(2, -2, 2, 2)}

InitAABB ==
    /\ nd = ExtFreeList
    /\ node = <<>>
    /\ child_nodes = ExtFreeList
    /\ handles = [h \in Handles |-> NoHandle]
    /\ status = "running"
    /\ last = Call("init", 0, "ok", -1)
    /\ reparents = 0
    /\ written = {}
    /\ \E b \in SplitBoxes, _x \in Even, _y \in Even :
            box = [aabb |-> b, x |-> _x, y |-> _y, quadrants |-> {}]
    /\ quadtree = <<>>
    /\ calls = <<>>
    /\ sgdh = <<>>

\* quadrants holds <<_q, split(_x, _y, _q)>> for every quadrant asked for
Split(_q) ==
    /\ \A p \in box.quadrants : p[1] # _q
    /\ box' = [box EXCEPT !.quadrants =
                 @ \cup {<<_q, split(box.aabb, box.x, box.y, _q)>>}]
    /\ UNCHANGED <<sgdh, nd, node, child_nodes, handles, status, last, reparents,
                   written, quadtree, calls>>

NextAABB == \E _q \in Quadrants : Split(_q)

SpecAABB == InitAABB /\ [][NextAABB]_vars

(***************************************************************************)
(* FreeList (list_t.hpp).  FreeElement is a union of the element and the   *)
(* int next, so next of a free slot lies on the first int of the element:  *)
(* member names it (id of a QuadElement, next of a QuadElementNode).       *)
(* capacity is that of the std::vector data, doubled when a push_back      *)
(* finds it full; the elements move then and references into data dangle.  *)
(***************************************************************************)
FreeList == [data |-> <<>>, first_free |-> -1, capacity |-> 0]

Reallocates(l) == l.first_free = -1 /\ Len(l.data) = l.capacity

FreeList_insert(l, element, member) ==
    IF l.first_free # -1
    THEN [list |-> [l EXCEPT !.first_free = l.data[l.first_free + 1][member],
                             !.data[l.first_free + 1] = element],
          index |-> l.first_free]
    ELSE [list |-> [l EXCEPT !.data = Append(l.data, element),
                             !.capacity = IF Len(l.data) < l.capacity
                                          THEN l.capacity
                                          ELSE IF l.capacity = 0 THEN 1
                                          ELSE 2 * l.capacity],
          index |-> Len(l.data)]

FreeList_erase(l, n, member) ==
    [l EXCEPT !.data[n + 1][member] = l.first_free, !.first_free = n]

FreeList_clear(l) == [l EXCEPT !.data = <<>>, !.first_free = -1]

(***************************************************************************)
(* Quadtree (quadtree.hpp, quadtree.cpp).                                  *)
(***************************************************************************)
QuadNode(first_child, count) == [first_child |-> first_child, count |-> count]

QuadElement(id, aabb) == [id |-> id, aabb |-> aabb]

QuadElementNode == [next |-> -1, element |-> -1]

\* _free_node has no initialiser: free_node is the value it happens to hold
Quadtree(aabb, max_leaf_elements, max_depth, free_node) ==
    [_aabb |-> aabb,
     _elements |-> FreeList,
     _element_nodes |-> FreeList,
     _nodes |-> <<QuadNode(-1, -1)>>,
     _free_node |-> free_node,
     _max_leaf_elements |-> max_leaf_elements,
     _max_depth |-> max_depth,
     _max_w |-> 0,
     _max_h |-> 0]

NodeInRange(qt, node_index) == node_index >= 0 /\ node_index < Len(qt._nodes)

Max(v, w) == IF v < w THEN w ELSE v

Pop(s) == SubSeq(s, 1, Len(s) - 1)

\* the walk to the last element node of a leaf's list
RECURSIVE LastElementNode(_, _)
LastElementNode(en, element_node_id) ==
    IF en.data[element_node_id + 1].next = -1 THEN element_node_id
    ELSE LastElementNode(en, en.data[element_node_id + 1].next)

\* the do-while of _leaf_to_branch: the elements of the list, their nodes erased
RECURSIVE Unlinked(_, _, _)
Unlinked(en, element_node_id, elements) ==
    LET qen == en.data[element_node_id + 1]
        erased == FreeList_erase(en, element_node_id, "next")
        found == Append(elements, qen.element)
    IN  IF qen.next = -1 THEN [en |-> erased, elements |-> found]
        ELSE Unlinked(erased, qen.next, found)

\* the redistribution loop of _leaf_to_branch
RECURSIVE Redistributed(_, _, _, _)
Redistributed(qt, first_child, aabb, elements) ==
    IF elements = <<>> THEN qt
    ELSE LET element_id == elements[Len(elements)]
             qe == qt._elements.data[element_id + 1]
             child_node_id ==
                 first_child + find_quadrant(aabb, qe.aabb.x, qe.aabb.y)
             ins == FreeList_insert(qt._element_nodes,
                        [next |-> -1, element |-> element_id], "next")
             child == qt._nodes[child_node_id + 1]
             tail == LastElementNode(qt._element_nodes, child.first_child)
             linked ==
                 IF child.first_child = -1
                 THEN [qt EXCEPT
                         !._element_nodes = ins.list,
                         !._nodes[child_node_id + 1].first_child = ins.index]
                 ELSE [qt EXCEPT
                         !._element_nodes =
                             [ins.list EXCEPT !.data[tail + 1].next = ins.index]]
         IN  Redistributed(
                 [linked EXCEPT !._nodes[child_node_id + 1].count = @ + 1],
                 first_child, aabb, Pop(elements))

_leaf_to_branch(qt, node_id, aabb) ==
    LET leaf == qt._nodes[node_id + 1]
        list == IF leaf.first_child # -1
                THEN Unlinked(qt._element_nodes, leaf.first_child, <<>>)
                ELSE [en |-> qt._element_nodes, elements |-> <<>>]
        first_child == Len(qt._nodes)
        branch == [qt EXCEPT
                     !._element_nodes = list.en,
                     !._nodes = [@ EXCEPT ![node_id + 1] =
                                             QuadNode(first_child, -1)]
                                \o [i \in 1..4 |-> QuadNode(-1, 0)]]
    IN  Redistributed(branch, first_child, aabb, list.elements)

leaf_takes_any(qt, count, depth) == TRUE

\* the test _insert_element_node makes of a leaf: it takes one more element
leaf_takes(qt, count, depth) ==
    count < qt._max_leaf_elements \/ depth = qt._max_depth

\* the loop of _insert_element_node; id is the element node returned
RECURSIVE _insert_element_node_loop(_, _, _, _, _)
_insert_element_node_loop(qt, aabb, node_index, current_quadrant, depth) ==
    LET leaf == qt._nodes[node_index + 1]
        is_root == node_index = 0 /\ leaf.first_child = -1
        is_leaf == ~is_root /\ leaf.count > -1
        fits == leaf_takes(qt, leaf.count, depth)
        ins == FreeList_insert(qt._element_nodes, QuadElementNode, "next")
        branch == IF is_root \/ is_leaf
                  THEN _leaf_to_branch(qt, node_index, current_quadrant)
                  ELSE qt
        quadrant == find_quadrant(current_quadrant, aabb.x, aabb.y)
    IN  IF is_leaf /\ fits
        THEN IF leaf.first_child = -1
             THEN [qt |-> [qt EXCEPT
                             !._nodes[node_index + 1] =
                                 QuadNode(ins.index, leaf.count + 1),
                             !._element_nodes = ins.list],
                   id |-> ins.index]
             ELSE [qt |-> [qt EXCEPT !._nodes[node_index + 1].count = @ + 1],
                   id |-> LastElementNode(qt._element_nodes, leaf.first_child)]
        ELSE _insert_element_node_loop(
                 branch, aabb,
                 branch._nodes[node_index + 1].first_child + quadrant,
                 split_center(current_quadrant, quadrant), depth + 1)

_insert_element_node(qt, aabb) ==
    _insert_element_node_loop(qt, aabb, 0, qt._aabb, 0)

\* insert(id, aabb).  aabb is a reference: when it refers to an element of
\* _elements and _elements.insert reallocates, it dangles, and stale is what
\* the reads made of it afterwards give.  For any other argument stale = aabb.
Quadtree_insert(qt, id, aabb, stale) ==
    LET ins == FreeList_insert(qt._elements, QuadElement(id, aabb), "id")
        arg == IF Reallocates(qt._elements) THEN stale ELSE aabb
        placed == _insert_element_node([qt EXCEPT !._elements = ins.list], arg)
        prev_qen_id == placed.id
        qen == FreeList_insert(placed.qt._element_nodes,
                   [next |-> -1, element |-> ins.index], "next")
        linked ==
            IF placed.qt._element_nodes.data[prev_qen_id + 1].element = -1
            THEN [placed.qt EXCEPT
                    !._element_nodes.data[prev_qen_id + 1].element = ins.index]
            ELSE [placed.qt EXCEPT
                    !._element_nodes =
                        [qen.list EXCEPT !.data[prev_qen_id + 1].next = qen.index]]
    IN  [linked EXCEPT !._max_w = Max(@, arg.hw), !._max_h = Max(@, arg.hh)]

\* the leaf loop of query
RECURSIVE query_leaf(_, _, _, _)
query_leaf(qt, search_aabb, element_node_id, result) ==
    IF element_node_id = -1 THEN result
    ELSE LET qen == qt._element_nodes.data[element_node_id + 1]
             qe == qt._elements.data[qen.element + 1]
         IN  query_leaf(qt, search_aabb, qen.next,
                 IF inside(search_aabb, qe.aabb.x, qe.aabb.y)
                 THEN Append(result, qe.id) ELSE result)

\* the loop of query
RECURSIVE query_loop(_, _, _, _, _)
query_loop(qt, search_aabb, to_process, quadrants, result) ==
    IF to_process = <<>> THEN result
    ELSE LET node_index == to_process[Len(to_process)]
             quadrant == quadrants[Len(quadrants)]
             branch == qt._nodes[node_index + 1]
             hit == SelectSeq(<<TL, TR, BL, BR>>,
                        LAMBDA i : overlap(search_aabb, split_center(quadrant, i)))
         IN  IF branch.count = -1
             THEN query_loop(qt, search_aabb,
                      Pop(to_process)
                          \o [k \in 1..Len(hit) |-> branch.first_child + hit[k]],
                      Pop(quadrants)
                          \o [k \in 1..Len(hit) |-> split_center(quadrant, hit[k])],
                      result)
             ELSE query_loop(qt, search_aabb, Pop(to_process), Pop(quadrants),
                      query_leaf(qt, search_aabb, branch.first_child, result))

query(qt, aabb) ==
    IF qt._nodes[1].first_child = -1 THEN <<>>
    ELSE query_loop(qt,
             AABB(aabb.x, aabb.y, aabb.hw + qt._max_w, aabb.hh + qt._max_h),
             <<0>>, <<qt._aabb>>, <<>>)

\* the search loop of remove in a leaf of several elements.  It has no test
\* for the end of the list: past it, _element_nodes[-1] is read.
RECURSIVE remove_search(_, _, _, _)
remove_search(qt, id, search_id, prev_qen) ==
    IF search_id < 0 \/ search_id >= Len(qt._element_nodes.data)
    THEN [found |-> FALSE]
    ELSE LET qen == qt._element_nodes.data[search_id + 1]
         IN  IF qt._elements.data[qen.element + 1].id = id
             THEN [found |-> TRUE, prev_qen |-> prev_qen, erase_qen |-> search_id,
                   next_qen |-> qen.next, erase_qe |-> qen.element]
             ELSE remove_search(qt, id, qen.next, search_id)

\* the loop of remove.  out: "true", "throw", "undefined" (a read outside
\* _nodes or _element_nodes), "hang" (fuel bounds the nodes of a descent: the
\* loop comes back to a node it left)
RECURSIVE remove_loop(_, _, _, _, _, _)
remove_loop(qt, id, aabb, node_index, current_quadrant, fuel) ==
    IF ~NodeInRange(qt, node_index) THEN [qt |-> qt, out |-> "undefined"]
    ELSE IF fuel = 0 THEN [qt |-> qt, out |-> "hang"]
    ELSE LET leaf == qt._nodes[node_index + 1]
             q == find_quadrant(current_quadrant, aabb.x, aabb.y)
             first == qt._element_nodes.data[leaf.first_child + 1]
             s == remove_search(qt, id, leaf.first_child, -1)
         IN  IF leaf.count = -1
             THEN remove_loop(qt, id, aabb, leaf.first_child + q,
                      split_center(current_quadrant, q), fuel - 1)
             ELSE IF leaf.count = 0 THEN [qt |-> qt, out |-> "throw"]
             ELSE IF first.next = -1
             THEN IF qt._elements.data[first.element + 1].id # id
                  THEN [qt |-> qt, out |-> "throw"]
                  ELSE [qt |-> [qt EXCEPT
                          !._elements = FreeList_erase(@, first.element, "id"),
                          !._element_nodes =
                              FreeList_erase(@, leaf.first_child, "next"),
                          !._nodes[node_index + 1] =
                              QuadNode(-1, leaf.count - 1)],
                        out |-> "true"]
             ELSE IF ~s.found THEN [qt |-> qt, out |-> "undefined"]
             ELSE [qt |-> [qt EXCEPT
                     !._nodes[node_index + 1] =
                         QuadNode(IF s.prev_qen = -1 THEN s.next_qen
                                  ELSE leaf.first_child, leaf.count - 1),
                     !._elements = FreeList_erase(@, s.erase_qe, "id"),
                     !._element_nodes =
                         FreeList_erase(
                             IF s.prev_qen = -1 THEN qt._element_nodes
                             ELSE [qt._element_nodes EXCEPT
                                     !.data[s.prev_qen + 1].next = s.next_qen],
                             s.erase_qen, "next")],
                   out |-> "true"]

Quadtree_remove_nothing(qt, id, aabb) == [qt |-> qt, out |-> "true"]

Quadtree_remove(qt, id, aabb) ==
    remove_loop(qt, id, aabb, 0, qt._aabb, Len(qt._nodes) + 1)

\* the loop of cleanup
RECURSIVE cleanup_loop(_, _)
cleanup_loop(qt, to_process) ==
    IF to_process = <<>> THEN [qt |-> qt, out |-> "true"]
    ELSE LET node_index == to_process[Len(to_process)]
             branch == qt._nodes[node_index + 1]
             child(j) == qt._nodes[branch.first_child + j + 1]
             branches == SelectSeq(<<0, 1, 2, 3>>, LAMBDA j : child(j).count = -1)
             num_empty_leaves ==
                 Cardinality({j \in 0..3 : child(j).count = 0})
             collapsed ==
                 [qt EXCEPT
                    !._nodes = [[@ EXCEPT ![branch.first_child + 1].first_child =
                                             qt._free_node]
                                   EXCEPT ![node_index + 1] = QuadNode(-1, 0)],
                    !._free_node = branch.first_child]
         IN  IF \E j \in 0..3 : ~NodeInRange(qt, branch.first_child + j)
             THEN [qt |-> qt, out |-> "undefined"]
             ELSE cleanup_loop(
                      IF num_empty_leaves = 4 THEN collapsed ELSE qt,
                      Pop(to_process)
                          \o [k \in 1..Len(branches) |->
                                 branch.first_child + branches[k]])

\* cleanup that returns without a walk
cleanup_without_collapse(qt) == [qt |-> qt, out |-> "true"]

\* bool Quadtree::cleanup()
cleanup(qt) ==
    cleanup_loop(qt, IF qt._nodes[1].count = -1 THEN <<0>> ELSE <<>>)

\* the list walk of resize
RECURSIVE resize_leaf(_, _, _)
resize_leaf(qt, next, elements) ==
    IF next = -1 THEN elements
    ELSE resize_leaf(qt, qt._element_nodes.data[next + 1].next,
             Append(elements, qt._element_nodes.data[next + 1].element))

\* the collecting loop of resize: the elements, or <<-1>> after a read
\* outside _nodes
RECURSIVE resize_collect(_, _, _)
resize_collect(qt, to_process, elements) ==
    IF to_process = <<>> THEN elements
    ELSE LET node_index == to_process[Len(to_process)]
         IN  IF ~NodeInRange(qt, node_index) THEN <<-1>>
             ELSE IF qt._nodes[node_index + 1].count = -1
             THEN resize_collect(qt,
                      Pop(to_process)
                          \o [i \in 1..4 |->
                                 qt._nodes[node_index + 1].first_child + i - 1],
                      elements)
             ELSE resize_collect(qt, Pop(to_process),
                      resize_leaf(qt, qt._nodes[node_index + 1].first_child,
                                  elements))

\* the reinserting loop of resize: insert is handed a reference to the aabb
\* of an element of _elements
RECURSIVE resize_insert(_, _, _)
resize_insert(qt, elements, stale) ==
    IF elements = <<>> THEN qt
    ELSE LET element_id == elements[Len(elements)]
             qe == qt._elements.data[element_id + 1]
             inserted == Quadtree_insert(qt, qe.id, qe.aabb, stale)
         IN  resize_insert(
                 [inserted EXCEPT
                    !._elements = FreeList_erase(@, element_id, "id")],
                 Pop(elements), stale)

resize(qt, aabb, stale) ==
    LET elements ==
            resize_collect(qt, IF qt._nodes[1].count = -1 THEN <<0>> ELSE <<>>,
                           <<>>)
        cleared == [qt EXCEPT
                      !._aabb = aabb,
                      !._element_nodes = FreeList_clear(@),
                      !._nodes = <<QuadNode(-1, -1)>>,
                      !._max_w = 0,
                      !._max_h = 0]
    IN  IF elements = <<-1>> THEN [qt |-> qt, out |-> "undefined"]
        ELSE [qt |-> resize_insert(cleared, elements, stale), out |-> "done"]

(***************************************************************************)
(* The calls made on a Quadtree.  Extents are multiples of Unit, so that   *)
(* the quadrants of every depth up to MaxDepth have integer coordinates.   *)
(***************************************************************************)
Unit == 2 ^ (MaxDepth + 1)

Quarter == Unit \div 4

\* the extents a tree is constructed with and resized to: square and tall
Extents == {AABB(0, 0, Unit, Unit), AABB(0, 0, Unit \div 2, Unit)}

\* the aabbs of the elements; their centres lie inside every extent
Boxes ==
    {AABB(-Quarter, -3 * Quarter, 0, 0),
     AABB(-Quarter, -Quarter, 0, 0),
     AABB(Quarter, Quarter, 2 * Quarter, 2 * Quarter)}

\* the query boxes; the last one covers every extent
Queries ==
    {AABB(-Quarter, -3 * Quarter, Quarter \div 2, Quarter \div 2),
     AABB(Quarter, -3 * Quarter, Quarter, Quarter),
     AABB(Quarter, Quarter, Quarter, Quarter),
     AABB(0, 0, 2 * Unit, 2 * Unit)}

Ids == 1..MaxIds

\* the values the uninitialised _free_node may hold
Indeterminate == {-1, 0}

Called(op, id, aabb, res, ids) ==
    [op |-> op, id |-> id, aabb |-> aabb, res |-> res, ids |-> ids]

Running ==
    IF calls = <<>> THEN TRUE
    ELSE calls[Len(calls)].res \notin {"undefined", "hang"}

\* the elements the calls cs have left in the tree
RECURSIVE Stored(_)
Stored(cs) ==
    IF cs = <<>> THEN {}
    ELSE LET c == cs[Len(cs)]
             before == Stored(Pop(cs))
         IN  IF c.op = "insert" THEN before \cup {QuadElement(c.id, c.aabb)}
             ELSE IF c.op = "remove" /\ c.res = "true"
             THEN {e \in before : e.id # c.id}
             ELSE before

InitQuadtree ==
    /\ nd = ExtFreeList
    /\ node = <<>>
    /\ child_nodes = ExtFreeList
    /\ handles = [h \in Handles |-> NoHandle]
    /\ status = "running"
    /\ last = Call("init", 0, "ok", -1)
    /\ reparents = 0
    /\ written = {}
    /\ box = <<>>
    /\ \E aabb \in Extents, free_node \in Indeterminate :
            quadtree = Quadtree(aabb, MaxLeafElements, MaxDepth, free_node)
    /\ calls = <<>>
    /\ sgdh = <<>>

Insert(id, aabb) ==
    /\ Len(calls) < MaxCalls
    /\ Running
    /\ \A e \in Stored(calls) : e.id # id
    /\ quadtree' = Quadtree_insert(quadtree, id, aabb, aabb)
    /\ calls' = Append(calls, Called("insert", id, aabb, "true", <<>>))
    /\ UNCHANGED <<sgdh, nd, node, child_nodes, handles, status, last, reparents,
                   written, box>>

Remove(id, aabb) ==
    /\ Len(calls) < MaxCalls
    /\ Running
    /\ LET removed == Quadtree_remove(quadtree, id, aabb)
       IN  /\ quadtree' = removed.qt
           /\ calls' = Append(calls,
                           Called("remove", id, aabb, removed.out, <<>>))
    /\ UNCHANGED <<sgdh, nd, node, child_nodes, handles, status, last, reparents,
                   written, box>>

Query(aabb) ==
    /\ Len(calls) < MaxCalls
    /\ Running
    /\ calls' = Append(calls,
                    Called("query", -1, aabb, "done", query(quadtree, aabb)))
    /\ UNCHANGED <<sgdh, nd, node, child_nodes, handles, status, last, reparents,
                   written, box, quadtree>>

Cleanup ==
    /\ Len(calls) < MaxCalls
    /\ Running
    /\ LET cleaned == cleanup(quadtree)
       IN  /\ quadtree' = cleaned.qt
           /\ calls' = Append(calls,
                           Called("cleanup", -1, AABB_default, cleaned.out, <<>>))
    /\ UNCHANGED <<sgdh, nd, node, child_nodes, handles, status, last, reparents,
                   written, box>>

\* when the first reinsertion reallocates _elements, the aabb it was handed
\* dangles: what is read from it then is any box
Resize(aabb) ==
    /\ Len(calls) < MaxCalls
    /\ Running
    /\ \E stale \in IF Reallocates(quadtree._elements) THEN Boxes ELSE {aabb} :
          LET resized == resize(quadtree, aabb, stale)
          IN  /\ quadtree' = resized.qt
              /\ calls' = Append(calls,
                              Called("resize", -1, aabb, resized.out, <<>>))
    /\ UNCHANGED <<sgdh, nd, node, child_nodes, handles, status, last, reparents,
                   written, box>>

NextQuadtree ==
    \/ \E id \in Ids, aabb \in Boxes : Insert(id, aabb)
    \/ \E id \in Ids, aabb \in Boxes : Remove(id, aabb)
    \/ \E aabb \in Queries : Query(aabb)
    \/ Cleanup
    \/ \E aabb \in Extents : Resize(aabb)

SpecQuadtree == InitQuadtree /\ [][NextQuadtree]_vars

(***************************************************************************)
(* The parent relation of the current state.                               *)
(***************************************************************************)
\* the proper ancestors of n: the nodes its parent links lead through
Ancestors(n) == Up(node, ND(n)._parent, {})

\* the proper descendants of n
Descendants(n) == {m \in NodeIds : n \in Ancestors(m)}

(***************************************************************************)
(* C1: after a mutator call on node N that changed the stored value has    *)
(* returned, N, every ancestor of N and every descendant of N is dirty.    *)
(***************************************************************************)
C1_ChangedMutatorDirties ==
    (last.op \in Mutators /\ last.res = "changed" /\ status = "running") =>
        \A m \in {last.a} \cup Ancestors(last.a) \cup Descendants(last.a) :
            ND(m)._dirty

C3_ReparentUnderDescendantThrows ==
    [][(/\ last'.op = "reparent_to"
        /\ reparents' = reparents + 1
        /\ last'.index \in Descendants(last'.a)) =>
            (/\ last'.res = "throw"
             /\ node' = node
             /\ child_nodes' = child_nodes)]_vars

\* reparent_to threw for a target that is a grandchild of the node.
C3_Witness ==
    /\ last.op = "reparent_to" /\ last.res = "throw"
    /\ last.index \in Descendants(last.a)
    /\ ND(last.index)._parent # last.a

(***************************************************************************)
(* C4: the parent relation has no cycle: the parent links of every node    *)
(* lead to a root.                                                         *)
(***************************************************************************)
C4_NoParentCycle == \A n \in NodeIds : UpEnds(node, n, {})

(***************************************************************************)
(* C5: the arena never hands out, by insert, a slot index that some live   *)
(* handle still refers to: when the Node constructor has just been given   *)
(* index i, no other live handle holds i.                                  *)
(***************************************************************************)
C5_InsertNeverAliasesLiveHandle ==
    last.op = "Node" =>
        \A h \in Handles \ {last.a} :
            Live(h) => handles[h]._node_id # last.index

\* The constructor was handed a reused slot while other handles are live.
C5_Witness ==
    /\ last.op = "Node" /\ last.res = "reused"
    /\ \E h \in Handles \ {last.a} : Live(h) /\ handles[h]._node_id > -1

(***************************************************************************)
(* C6: whenever no live handle refers to a record, its slot is free; no    *)
(* active slot has a reference count of zero.                              *)
(***************************************************************************)
C6_NoUnreferencedActiveSlot ==
    \A n \in 0..(Size(nd) - 1) :
        active(nd, n) =>
            /\ \E h \in Handles : Live(h) /\ handles[h]._node_id = n
            /\ ND(n)._ref_count > 0

(***************************************************************************)
(* The round trip of C7: on the tree as constructed, insert(X, A), then    *)
(* remove(X, A), then cleanup(), each returning true.                      *)
(***************************************************************************)
RoundTrip ==
    /\ Len(calls) >= 3
    /\ calls[1].op = "insert"
    /\ calls[2].op = "remove" /\ calls[2].res = "true"
    /\ calls[2].id = calls[1].id /\ calls[2].aabb = calls[1].aabb
    /\ calls[3].op = "cleanup" /\ calls[3].res = "true"

LaterInsert == RoundTrip /\ Len(calls) = 4 /\ calls[4].op = "insert"

\* the tree as it was constructed, its running maxima set to max_w and max_h
Fresh(max_w, max_h) ==
    [Quadtree(quadtree._aabb, quadtree._max_leaf_elements, quadtree._max_depth,
              quadtree._free_node)
        EXCEPT !._max_w = max_w, !._max_h = max_h]

(***************************************************************************)
(* C7: after insert(X, A), remove(X, A), cleanup() on a fresh tree every   *)
(* query returns the empty list, and after a later insert every query      *)
(* returns what it returns on a fresh tree after that insert.              *)
(***************************************************************************)
C7_RoundTripLeavesFreshTree ==
    /\ (RoundTrip /\ Len(calls) = 3) =>
          \A Q \in Queries : query(quadtree, Q) = <<>>
    /\ LaterInsert =>
          \A Q \in Queries :
              query(quadtree, Q) =
                  query(Quadtree_insert(Fresh(0, 0), calls[4].id, calls[4].aabb,
                                        calls[4].aabb), Q)

(***************************************************************************)
(* C7, amended: after insert(X, A), remove(X, A), cleanup() on a fresh     *)
(* tree every query returns the empty list, and after a later insert every *)
(* query returns what it returns on a fresh tree after that insert whose   *)
(* max_w and max_h already held the half extents of A: the running maxima  *)
(* are not reset by remove or cleanup.                                     *)
(***************************************************************************)
C7_RoundTripKeepsOnlyMaxima ==
    /\ (RoundTrip /\ Len(calls) = 3) =>
          \A Q \in Queries : query(quadtree, Q) = <<>>
    /\ LaterInsert =>
          \A Q \in Queries :
              query(quadtree, Q) =
                  query(Quadtree_insert(
                            Fresh(calls[1].aabb.hw, calls[1].aabb.hh),
                            calls[4].id, calls[4].aabb, calls[4].aabb), Q)

C7_Witness ==
    /\ LaterInsert
    /\ calls[1].aabb.hw > calls[4].aabb.hw
    /\ \E Q \in Queries :
          /\ query(quadtree, Q) = <<calls[4].id>>
          /\ ~inside(Q, calls[4].aabb.x, calls[4].aabb.y)

(***************************************************************************)
(* C8: after inserts only, of elements whose centres lie inside the        *)
(* extent, every query box Q gets exactly the ids of the stored elements   *)
(* whose centre lies inside Q enlarged by max_w and max_h, each once.      *)
(***************************************************************************)
Enlarged(Q) ==
    AABB(Q.x, Q.y, Q.hw + quadtree._max_w, Q.hh + quadtree._max_h)

C8_QueryReturnsExactlyTheCentresInside ==
    (/\ calls # <<>>
     /\ \A k \in 1..Len(calls) :
           /\ calls[k].op = "insert"
           /\ inside(quadtree._aabb, calls[k].aabb.x, calls[k].aabb.y)) =>
        \A Q \in Queries :
            LET found == query(quadtree, Q)
                expected == {e \in Stored(calls) :
                                inside(Enlarged(Q), e.aabb.x, e.aabb.y)}
            IN  /\ {found[k] : k \in 1..Len(found)} = {e.id : e \in expected}
                /\ Len(found) = Cardinality(expected)

(***************************************************************************)
(* C9: when remove(id, A) is called after insert(id, A) and, since then,   *)
(* only inserts and removes of other ids, cleanup() and resize() calls, it *)
(* returns true, no query returns id afterwards and the query that covers  *)
(* every extent still returns all other stored ids.                        *)
(***************************************************************************)
Everywhere == AABB(0, 0, 2 * Unit, 2 * Unit)

RemoveOfStored ==
    /\ calls # <<>>
    /\ calls[Len(calls)].op = "remove"
    /\ \E k \in 1..(Len(calls) - 1) :
          /\ calls[k].op = "insert"
          /\ calls[k].id = calls[Len(calls)].id
          /\ calls[k].aabb = calls[Len(calls)].aabb
          /\ \A j \in (k + 1)..(Len(calls) - 1) :
                /\ calls[j].op \in {"insert", "remove", "cleanup", "resize"}
                /\ calls[j].id # calls[k].id

C9_RemoveFindsTheElement ==
    RemoveOfStored =>
        /\ calls[Len(calls)].res = "true"
        /\ \A Q \in Queries :
              \A k \in 1..Len(query(quadtree, Q)) :
                  query(quadtree, Q)[k] # calls[Len(calls)].id
        /\ \A e \in Stored(calls) :
              \E k \in 1..Len(query(quadtree, Everywhere)) :
                  query(quadtree, Everywhere)[k] = e.id

(***************************************************************************)
(* C10: the four boxes split returns for a point inside the box lie inside *)
(* the box, cover it, and overlap each other only on edges.  The edges of  *)
(* all the boxes are integers, so the box is a union of unit cells: every  *)
(* cell of the box lies in exactly one of the four.                        *)
(***************************************************************************)
Cells == {<<i, j>> : i \in -8..7, j \in -8..7}

CellInside(c, b) ==
    /\ b.x - b.hw <= c[1] /\ c[1] + 1 <= b.x + b.hw
    /\ b.y - b.hh <= c[2] /\ c[2] + 1 <= b.y + b.hh

C10_SplitPartitionsTheBox ==
    (Cardinality(box.quadrants) = 4 /\ inside(box.aabb, box.x, box.y)) =>
        /\ \A p \in box.quadrants : inside_aabb(box.aabb, p[2])
        /\ \A c \in Cells :
              CellInside(c, box.aabb) =>
                  \E p \in box.quadrants : CellInside(c, p[2])
        /\ \A c \in Cells : \A p, q \in box.quadrants :
              (CellInside(c, p[2]) /\ CellInside(c, q[2])) => p = q

(***************************************************************************)
(* The nodes of the tree with their depth, and the length of a leaf's list.*)
(***************************************************************************)
RECURSIVE NodesBelow(_, _, _)
NodesBelow(qt, node_index, depth) ==
    {<<node_index, depth>>} \cup
        IF qt._nodes[node_index + 1].count = -1
           /\ qt._nodes[node_index + 1].first_child # -1
        THEN UNION {NodesBelow(qt, qt._nodes[node_index + 1].first_child + i,
                               depth + 1) : i \in 0..3}
        ELSE {}

RECURSIVE ListLength(_, _)
ListLength(qt, element_node_id) ==
    IF element_node_id = -1 THEN 0
    ELSE 1 + ListLength(qt, qt._element_nodes.data[element_node_id + 1].next)

LeafLength(qt, node_index) == ListLength(qt, qt._nodes[node_index + 1].first_child)

OnlyInserts == calls # <<>> /\ \A k \in 1..Len(calls) : calls[k].op = "insert"

(***************************************************************************)
(* C11: after insert calls only, the root is a branch, no node lies deeper *)
(* than max_depth, and every leaf above max_depth holds at most            *)
(* max_leaf_elements elements.                                             *)
(***************************************************************************)
C11_LeavesSplitAtCapacity ==
    OnlyInserts =>
        /\ quadtree._nodes[1].count = -1
        /\ quadtree._nodes[1].first_child # -1
        /\ \A nd_ \in NodesBelow(quadtree, 0, 0) :
              /\ nd_[2] <= quadtree._max_depth
              /\ (quadtree._nodes[nd_[1] + 1].count # -1
                  /\ nd_[2] < quadtree._max_depth) =>
                     LeafLength(quadtree, nd_[1]) <= quadtree._max_leaf_elements

C11_Witness ==
    /\ OnlyInserts
    /\ \E nd_ \in NodesBelow(quadtree, 0, 0) :
          /\ nd_[2] = quadtree._max_depth
          /\ quadtree._nodes[nd_[1] + 1].count # -1
          /\ LeafLength(quadtree, nd_[1]) > quadtree._max_leaf_elements

(***************************************************************************)
(* What traverse computes and query reads (node.cpp 65-176, 270-438): the  *)
(* relative values and the aabb of every node, and the quadtree of the     *)
(* root.  Spec above follows the graph and its flags through every         *)
(* mutator; SpecScene below follows the values, with the mutators that set *)
(* no angle: base_angle and _angle stay 0.0 and no vector is rotated       *)
(* (node.cpp 321-328 and 343-358 are not entered).  There is one root, so  *)
(* quadtree is its _quadtree, <<>> while the pointer is null.              *)
(***************************************************************************)
\* Vector2 NodeData::_get_offset(): the origins are a 3 x 3 grid
_get_offset(d) ==
    <<-Half((d._origin % 3) * d._size[1]), -Half((d._origin \div 3) * d._size[2])>>

\* the position scaled whatever distance_relative is
scale_position_always(position, base_dist_rel, sx, sy) ==
    <<position[1] * sx, position[2] * sy>>

\* if (base_dist_rel) { position[0] *= sx; position[1] *= sy; }
scale_position(position, base_dist_rel, sx, sy) ==
    IF base_dist_rel THEN <<position[1] * sx, position[2] * sy>> ELSE position

\* void NodeData::_update_relative(SceneGraphDataHandler&), for node n
_update_relative(nodes, n) ==
    LET d == nodes[n + 1]
        parent == nodes[d._parent + 1]
        local_origin == IF d._parent > -1 THEN parent._r_position
                        ELSE _get_offset(d)
        base_scale == IF d._parent > -1 THEN parent._r_scale ELSE <<1, 1>>
        base_angle == IF d._parent > -1 THEN parent._r_angle ELSE Zero
        r_depth == IF d._parent > -1 THEN parent._r_depth + d._depth
                   ELSE d._depth
        base_dist_rel == IF d._parent > -1
                         THEN parent._distance_relative \/ d._distance_relative
                         ELSE d._distance_relative
        scaled == base_scale # <<1, 1>> \/ d._scale # <<1, 1>>
        sx == IF d._scale # <<1, 1>> THEN base_scale[1] * d._scale[1]
              ELSE base_scale[1]
        sy == IF d._scale # <<1, 1>> THEN base_scale[2] * d._scale[2]
              ELSE base_scale[2]
        Times(v) == IF scaled THEN <<v[1] * sx, v[2] * sy>> ELSE v
        position == IF scaled
                    THEN scale_position(d._position, base_dist_rel, sx, sy)
                    ELSE d._position
        tl == _get_offset(d)
        \* tl, tr, bl, br: scaled, then moved by position and local_origin
        corner(w, h) ==
            LET c == Times(<<tl[1] + w, tl[2] + h>>)
            IN  <<c[1] + position[1] + local_origin[1],
                  c[2] + position[2] + local_origin[2]>>
        corners == {corner(0, 0), corner(d._size[1], 0), corner(0, d._size[2]),
                    corner(d._size[1], d._size[2])}
        x_max == CHOOSE v \in {c[1] : c \in corners} :
                     \A c \in corners : c[1] <= v
        x_min == CHOOSE v \in {c[1] : c \in corners} :
                     \A c \in corners : v <= c[1]
        y_max == CHOOSE v \in {c[2] : c \in corners} :
                     \A c \in corners : c[2] <= v
        y_min == CHOOSE v \in {c[2] : c \in corners} :
                     \A c \in corners : v <= c[2]
        _x == x_min + Half(x_max - x_min)
        _y == y_min + Half(y_max - y_min)
    IN  [nodes EXCEPT ![n + 1] =
            [d EXCEPT
               !._r_position = <<local_origin[1] + position[1],
                                 local_origin[2] + position[2]>>,
               !._r_scale = <<base_scale[1] * d._scale[1],
                              base_scale[2] * d._scale[2]>>,
               !._r_angle = IF d._angle = Zero THEN base_angle
                            ELSE IF base_angle = Zero THEN d._angle
                            ELSE <<base_angle, d._angle>>,
               !._r_depth = r_depth,
               !._r_size = <<d._size[1] * base_scale[1] * d._scale[1],
                             d._size[2] * base_scale[2] * d._scale[2]>>,
               !._aabb = AABB(_x, _y, _x - x_min, _y - y_min),
               !._dirty = FALSE,
               !._isnew = FALSE]]

\* the node ids of the child list from c, in the order of the list
RECURSIVE Children(_, _, _)
Children(cn, c, seen) ==
    IF c = -1 \/ c \in seen \/ ~InRange(cn, c) THEN <<>>
    ELSE <<At(cn, c).node_id>> \o Children(cn, At(cn, c).next, seen \cup {c})

QuadtreeEntry(node_id, aabb) == [node_id |-> node_id, aabb |-> aabb]

\* the walk of _traverse (node.cpp 82-106): the nodes updated and the
\* entries collected, two for every dirty node popped
RECURSIVE traverse_loop(_, _, _, _)
traverse_loop(nodes, cn, to_process, entries) ==
    IF to_process = <<>> THEN [node |-> nodes, entries |-> entries]
    ELSE LET node_id == to_process[Len(to_process)]
             d == nodes[node_id + 1]
             updated == _update_relative(nodes, node_id)
         IN  IF d._dirty
             THEN traverse_loop(updated, cn,
                      Pop(to_process) \o Children(cn, d._first_child, {}),
                      entries \o
                          <<QuadtreeEntry(IF d._isnew THEN -1 ELSE node_id,
                                          d._aabb),
                            QuadtreeEntry(node_id, updated[node_id + 1]._aabb)>>)
             ELSE traverse_loop(nodes, cn, Pop(to_process), entries)

\* r, or what f makes of its quadtree when r went well
Then(r, f(_)) == IF r.out \in {"done", "true"} THEN f(r.qt) ELSE r

\* bool Quadtree::move(const int id, AABB& aabb_from, AABB& aabb_to)
move(qt, id, aabb_from, aabb_to) ==
    Then(Quadtree_remove(qt, id, aabb_from),
         LAMBDA q : [qt |-> Quadtree_insert(q, id, aabb_to, aabb_to),
                     out |-> "true"])

\* one turn of the loop over the entries (node.cpp 124-131)
traverse_entry(qt, qe_from, qe_to) ==
    IF qe_from.node_id = -1
    THEN [qt |-> Quadtree_insert(qt, qe_to.node_id, qe_to.aabb, qe_to.aabb),
          out |-> "true"]
    ELSE IF qe_from.aabb # qe_to.aabb
    THEN move(qt, qe_from.node_id, qe_from.aabb, qe_to.aabb)
    ELSE [qt |-> qt, out |-> "true"]

\* the loop over the entries (node.cpp 123-134), from the end
RECURSIVE traverse_entries(_, _)
traverse_entries(qt, entries) ==
    IF entries = <<>> THEN [qt |-> qt, out |-> "true"]
    ELSE Then(traverse_entry(qt, entries[Len(entries) - 1],
                             entries[Len(entries)]),
              LAMBDA q : traverse_entries(q, Pop(Pop(entries))))

\* x_min, x_max, y_min, y_max of the boxes to, and the AABB qt made of them
\* (node.cpp 98-101, 108-109)
Bounds(to) ==
    LET Highest(S) == CHOOSE v \in S : \A w \in S : w <= v
        Lowest(S) == CHOOSE v \in S : \A w \in S : v <= w
    IN  [x_min |-> Lowest({b.x - b.hw : b \in to}),
         x_max |-> Highest({b.x + b.hw : b \in to}),
         y_min |-> Lowest({b.y - b.hh : b \in to}),
         y_max |-> Highest({b.y + b.hh : b \in to})]

BoundsAABB(b) ==
    AABB(b.x_min + Half(b.x_max - b.x_min), b.y_min + Half(b.y_max - b.y_min),
         Half(b.x_max - b.x_min), Half(b.y_max - b.y_min))

\* the quadtree part of _traverse (node.cpp 108-136) for the entries
\* collected, whose new aabbs have the bounds b
traverse_quadtree(qt, entries, b, free_node, stale) ==
    Then(Then(IF qt = <<>>
              THEN [qt |-> Quadtree(BoundsAABB(b), MaxLeafElements, MaxDepth,
                                    free_node),
                    out |-> "done"]
              ELSE IF ~inside(qt._aabb, b.x_min, b.y_min)
                      \/ ~inside(qt._aabb, b.x_max, b.y_max)
              THEN resize(qt, BoundsAABB(b), stale)
              ELSE [qt |-> qt, out |-> "done"],
              LAMBDA q : traverse_entries(q, entries)),
         LAMBDA q : cleanup(q))

\* what _traverse leaves when its walk gave out and t
traverse_result(nodes, qt, out, t, free_node, stale) ==
    IF out # "true" THEN [node |-> nodes, qt |-> qt, out |-> out]
    ELSE [node |-> t.node] @@
         traverse_quadtree(qt, t.entries,
             Bounds({t.entries[2 * k].aabb : k \in 1..(Len(t.entries) \div 2)}),
             free_node, stale)

\* bool NodeData::_traverse(SceneGraphDataHandler&), whole: the walk of
\* _traverse above, the relative values and the quadtree qt of the root.
\* free_node is what the _free_node of a new Quadtree holds, stale what a
\* dangling aabb of resize gives.  out: "false", "true", "throw", "hang",
\* "undefined".
NodeData_traverse(nodes, cn, qt, n, free_node, stale) ==
    traverse_result(nodes, qt, _traverse(nodes, cn, n).out,
        traverse_loop(nodes, cn, <<Root(nodes, n)>>, <<>>), free_node, stale)

\* DepthData(node_id, depth), the pair _query sorts
DepthData(node_id, depth) == [node_id |-> node_id, depth |-> depth]

\* the comparison _query hands to std::sort: by depth, ascending
comp_depth_data(lhs, rhs) == lhs.depth < rhs.depth

\* the result handed back as it was collected
depth_sort_unsorted(nodes, result) == result

\* the sorting part of _query (node.cpp 164-175).  std::sort leaves nodes of
\* equal depth in an order of its choosing; SortSeq leaves them in one.
depth_sort(nodes, result) ==
    LET v == [k \in 1..Len(result) |->
                 DepthData(result[k], nodes[result[k] + 1]._r_depth)]
        sorted == SortSeq(v, comp_depth_data)
    IN  [k \in 1..Len(sorted) |-> sorted[k].node_id]

\* SmallList<int> NodeData::_query(SceneGraphDataHandler&, AABB&, const bool):
\* the ids the quadtree of the root returns, from the back, that are not
\* hidden; std::sort by _r_depth leaves the order of equal depths open
_query(nodes, qt, n, aabb, depth_sorted) ==
    LET qt_result == query(qt, aabb)
        from_back == [k \in 1..Len(qt_result) |->
                         qt_result[Len(qt_result) + 1 - k]]
        result == SelectSeq(from_back, LAMBDA m : ~nodes[m + 1]._hidden)
    IN  IF ~UpEnds(nodes, n, {}) THEN [out |-> "hang", ids |-> <<>>]
        ELSE IF qt = <<>> THEN [out |-> "throw", ids |-> <<>>]
        ELSE [out |-> "done",
              ids |-> IF depth_sorted THEN depth_sort(nodes, result)
                      ELSE result]

\* what Node::get_relative_pos(), get_relative_scale(), get_relative_angle(),
\* get_relative_depth() and get_relative_size() return on node n
get_relative(nodes, n) ==
    [pos |-> nodes[n + 1]._r_position,
     scale |-> nodes[n + 1]._r_scale,
     angle |-> nodes[n + 1]._r_angle,
     depth |-> nodes[n + 1]._r_depth,
     size |-> nodes[n + 1]._r_size]

\* the boxes queried: around the origin, around the other point, both
SceneQueries == {AABB(0, 0, 4, 4), AABB(16, 0, 4, 4), AABB(8, 0, 16, 16)}

\* the state after a traverse() on node n that gave res; _nodes of the
\* quadtree only grows, and the calls that make it longer than MaxQuadNodes
\* are left out
Traversed(n, res) ==
    /\ node' = res.node
    /\ quadtree' = res.qt
    /\ IF res.qt = <<>> THEN TRUE ELSE Len(res.qt._nodes) <= MaxQuadNodes
    /\ status' = Stopped(res.out)
    /\ last' = Call("traverse", n, res.out, -1)
    /\ UNCHANGED <<sgdh, nd, child_nodes, handles, reparents, written, box, calls>>

\* the aabbs a dangling reference of resize may give: those of _elements
Stale(qt) ==
    IF qt = <<>> THEN {AABB_default}
    ELSE IF Reallocates(qt._elements)
    THEN {qt._elements.data[k].aabb : k \in 1..Len(qt._elements.data)}
    ELSE {AABB_default}

\* bool Node::traverse(), whole
TraverseScene(n) ==
    /\ status = "running"
    /\ \E free_node \in IF quadtree = <<>> THEN Indeterminate ELSE {-1} :
       \E stale \in Stale(quadtree) :
          Traversed(n, NodeData_traverse(node, child_nodes, quadtree, n,
                                        free_node, stale))

\* SmallList<int> Node::query(AABB& aabb, const bool depth_sorted): it changes
\* nothing, so what it returned is _query of the state it leaves
QueryScene(n, aabb, depth_sorted) ==
    /\ status = "running"
    /\ LET res == _query(node, quadtree, n, aabb, depth_sorted)
       IN  /\ status' = Stopped(res.out)
           /\ last' = Call("query", n, res.out, -1)
    /\ UNCHANGED <<sgdh, nd, node, child_nodes, handles, reparents, written, box,
                   quadtree, calls>>

\* the five get_relative_ calls on node n: they change nothing, so what they
\* returned are the getters of the state they leave
GetRelative(n) ==
    /\ status = "running"
    /\ last' = Call("get_relative", n,
                    IF _get_node_data(n) THEN "ok" ELSE "throw", -1)
    /\ UNCHANGED <<sgdh, nd, node, child_nodes, handles, status, reparents, written,
                   box, quadtree, calls>>

\* the application builds its graph first, of at most MaxSceneNodes nodes
Building == last.op \in {"init", "Node", "attach_node"} /\ Size(nd) < MaxSceneNodes

NextScene ==
    \/ Building /\ NewNode
    \/ Building /\ \E n \in NodeIds : attach_node(n)
    \/ \E n, p \in NodeIds : ReparentTo(n, p)
    \/ \E n \in NodeIds : TraverseScene(n)
    \/ \E n \in NodeIds : Hide(n)
    \/ \E n \in NodeIds : Show(n)
    \/ \E n \in NodeIds : SetPos(n)
    \/ \E n \in NodeIds : SetScale(n)
    \/ \E n \in NodeIds : SetDepth(n)
    \/ \E n \in NodeIds, aabb \in SceneQueries, depth_sorted \in BOOLEAN :
          QueryScene(n, aabb, depth_sorted)
    \/ \E n \in NodeIds : GetRelative(n)

SpecScene == Init /\ [][NextScene]_vars

\* s1 * s2 * ... * sk along the chain from the root to n
RECURSIVE ChainScale(_, _)
ChainScale(nodes, n) ==
    IF nodes[n + 1]._parent \notin 0..(Len(nodes) - 1) THEN nodes[n + 1]._scale
    ELSE <<ChainScale(nodes, nodes[n + 1]._parent)[1] * nodes[n + 1]._scale[1],
           ChainScale(nodes, nodes[n + 1]._parent)[2] * nodes[n + 1]._scale[2]>>

\* a traverse() has just returned
Cleaned == last.op = "traverse" /\ last.res \in {"true", "false"}

(***************************************************************************)
(* C12: after traverse() has returned, get_relative_scale() of every node  *)
(* N is the component-wise product of the local scales along the chain     *)
(* from the root to N, the root's own scale included once.                 *)
(***************************************************************************)
C12_RelativeScaleIsChainProduct ==
    Cleaned =>
        \A n \in NodeIds :
            UpEnds(node, n, {}) =>
                get_relative(node, n).scale = ChainScale(node, n)

(***************************************************************************)
(* The flat scene graph of node.hpp (namespace foolysh::scene): parallel   *)
(* vectors indexed by node id, a node being its own parent when it is a    *)
(* root.  node.hpp declares scene_traverse, minimal_clean, dirty_path,     *)
(* process_angle, process_depth, process_scale, process_pos and            *)
(* clear_dirty_flag and calls minimal_clean from Node::clean_node; their   *)
(* definitions are not among the sources, and the operators below follow   *)
(* the description of them in the specification (sections 3 and 4.2).      *)
(* sgdh[n + 1] holds the entries of node n.  Size, origin and rotation     *)
(* centre keep their defaults, so the origin offset is (0, 0) and a        *)
(* position is rotated about (0, 0); the angles are multiples of 90.       *)
(***************************************************************************)
SceneNode(parent) ==
    [parent |-> parent, dirty |-> TRUE, distance_relative |-> FALSE,
     pos |-> <<0, 0>>, scale |-> <<1, 1>>, angle |-> 0, depth |-> 0,
     r_pos |-> <<0, 0>>, r_scale |-> <<1, 1>>, r_angle |-> 0, r_depth |-> 0]

\* the parent chain above n, n left out
RECURSIVE SceneAncestors(_, _)
SceneAncestors(s, n) ==
    IF s[n + 1].parent = n THEN {}
    ELSE {s[n + 1].parent} \cup SceneAncestors(s, s[n + 1].parent)

RECURSIVE SceneRoot(_, _)
SceneRoot(s, n) == IF s[n + 1].parent = n THEN n ELSE SceneRoot(s, s[n + 1].parent)

\* void Node::propagate_dirty(): the node, its ancestors, its descendants
propagate_dirty(s, n) ==
    [m \in 1..Len(s) |->
        IF m - 1 = n \/ m - 1 \in SceneAncestors(s, n)
           \/ n \in SceneAncestors(s, m - 1)
        THEN [s[m] EXCEPT !.dirty = TRUE] ELSE s[m]]

\* a mutator of field: compare, assign, propagate
scene_set(s, n, field, v) ==
    IF s[n + 1][field] = v THEN s
    ELSE propagate_dirty([s EXCEPT ![n + 1][field] = v], n)

\* Node Node::attach_node()
scene_attach_node(s, n) ==
    propagate_dirty(
        Append(s, [SceneNode(n) EXCEPT
                      !.distance_relative = s[n + 1].distance_relative]), n)

\* void Node::reparent_to(const size_t parent): "ok" or "throw"
scene_reparent_to(s, n, parent) ==
    IF n = parent \/ n \in SceneAncestors(s, parent)
    THEN [sgdh |-> s, out |-> "throw"]
    ELSE [sgdh |-> scene_set(s, n, "parent", parent), out |-> "ok"]

\* void dirty_path(...): the contiguous dirty prefix of the chain from n
\* towards the root, n first
RECURSIVE dirty_path(_, _)
dirty_path(s, n) ==
    IF ~s[n + 1].dirty THEN <<>>
    ELSE IF s[n + 1].parent = n THEN <<n>>
    ELSE <<n>> \o dirty_path(s, s[n + 1].parent)

\* v rotated by -a, a a multiple of 90
Rotated(v, a) ==
    CASE (a \div 90) % 4 = 0 -> v
      [] (a \div 90) % 4 = 1 -> <<v[2], -v[1]>>
      [] (a \div 90) % 4 = 2 -> <<-v[1], -v[2]>>
      [] OTHER -> <<-v[2], v[1]>>

\* void process_angle(...): the relative angle of every node of path, in order
process_angle(s, path) ==
    LET F[k \in 0..Len(path)] ==
            IF k = 0 THEN s
            ELSE LET n == path[k]
                     p == F[k - 1][n + 1].parent
                 IN  [F[k - 1] EXCEPT ![n + 1].r_angle =
                         IF p = n THEN F[k - 1][n + 1].angle
                         ELSE F[k - 1][p + 1].r_angle + F[k - 1][n + 1].angle]
    IN  F[Len(path)]

\* void process_depth(...)
process_depth(s, path) ==
    LET F[k \in 0..Len(path)] ==
            IF k = 0 THEN s
            ELSE LET n == path[k]
                     p == F[k - 1][n + 1].parent
                 IN  [F[k - 1] EXCEPT ![n + 1].r_depth =
                         IF p = n THEN F[k - 1][n + 1].depth
                         ELSE F[k - 1][p + 1].r_depth + F[k - 1][n + 1].depth]
    IN  F[Len(path)]

\* void process_scale(...)
process_scale(s, path) ==
    LET F[k \in 0..Len(path)] ==
            IF k = 0 THEN s
            ELSE LET n == path[k]
                     p == F[k - 1][n + 1].parent
                     base == IF p = n THEN <<1, 1>> ELSE F[k - 1][p + 1].r_scale
                 IN  [F[k - 1] EXCEPT ![n + 1].r_scale =
                         <<base[1] * F[k - 1][n + 1].scale[1],
                           base[2] * F[k - 1][n + 1].scale[2]>>]
    IN  F[Len(path)]

\* void process_pos(...): the local position, scaled by the relative scale
\* when DISTANCE_RELATIVE is set, rotated by the negative of the relative
\* angle when that is not zero, moved by the relative position of the parent
process_pos(s, path) ==
    LET F[k \in 0..Len(path)] ==
            IF k = 0 THEN s
            ELSE LET d == F[k - 1][path[k] + 1]
                     scaled == IF d.distance_relative
                               THEN <<d.pos[1] * d.r_scale[1],
                                      d.pos[2] * d.r_scale[2]>>
                               ELSE d.pos
                     turned == IF d.r_angle # 0 THEN Rotated(scaled, d.r_angle)
                               ELSE scaled
                     origin == IF d.parent = path[k] THEN <<0, 0>>
                               ELSE F[k - 1][d.parent + 1].r_pos
                 IN  [F[k - 1] EXCEPT ![path[k] + 1].r_pos =
                         <<origin[1] + turned[1], origin[2] + turned[2]>>]
    IN  F[Len(path)]

\* bool clear_dirty_flag(...)
clear_dirty_flag(s, path) ==
    [m \in 1..Len(s) |->
        IF \E k \in 1..Len(path) : path[k] = m - 1
        THEN [s[m] EXCEPT !.dirty = FALSE] ELSE s[m]]

\* angle, depth, scale, position, in that order, for the nodes of path, and
\* their DIRTY flags cleared
recompute(s, path) ==
    clear_dirty_flag(
        process_pos(process_scale(process_depth(process_angle(s, path), path),
                                  path), path), path)

minimal_clean_child_first(s, node_id) == recompute(s, dirty_path(s, node_id))

\* void minimal_clean(...): the dirty prefix, reversed to root-first order
minimal_clean(s, node_id) ==
    recompute(s, [k \in 1..Len(dirty_path(s, node_id)) |->
                    dirty_path(s, node_id)[Len(dirty_path(s, node_id)) + 1 - k]])

\* inline void Node::clean_node()
clean_node(s, node_id) ==
    IF s[node_id + 1].dirty THEN minimal_clean(s, node_id) ELSE s

\* the breadth-first discovery of scene_traverse: one scan of parent_vec
\* for every level
RECURSIVE discover(_, _, _)
discover(s, level, found) ==
    IF level = <<>> THEN found
    ELSE LET below == SelectSeq([m \in 1..Len(s) |-> m - 1],
                          LAMBDA m : /\ s[m + 1].parent # m
                                     /\ \E k \in 1..Len(level) :
                                           level[k] = s[m + 1].parent)
         IN  discover(s, below, found \o level)

\* bool scene_traverse(...): every node below start_node recomputed, and
\* whether start_node was dirty
scene_traverse(s, start_node) ==
    [sgdh |-> recompute(s, discover(s, <<start_node>>, <<>>)),
     out |-> s[start_node + 1].dirty]

(***************************************************************************)
(* The calls made on the flat scene graph, of at most MaxSceneNodes nodes  *)
(* below the root 0; MaxSceneWritten fields are written.                   *)
(***************************************************************************)
SceneIds == 0..(Len(sgdh) - 1)

\* the values written: one for every field, none of them the default
SceneValues ==
    {<<"pos", <<16, 0>>>>, <<"scale", <<2, 1>>>>, <<"angle", 90>>,
     <<"depth", 1>>, <<"distance_relative", TRUE>>}

InitFlat ==
    /\ nd = ExtFreeList
    /\ node = <<>>
    /\ child_nodes = ExtFreeList
    /\ handles = [h \in Handles |-> NoHandle]
    /\ status = "running"
    /\ last = Call("init", 0, "ok", -1)
    /\ reparents = 0
    /\ written = {}
    /\ box = <<>>
    /\ quadtree = <<>>
    /\ calls = <<>>
    /\ sgdh = <<SceneNode(0)>>

FlatAttach(n) ==
    /\ Len(sgdh) < MaxSceneNodes
    /\ sgdh' = scene_attach_node(sgdh, n)
    /\ last' = Call("attach_node", n, "ok", Len(sgdh))
    /\ UNCHANGED <<nd, node, child_nodes, handles, status, reparents, written,
                   box, quadtree, calls>>

FlatReparent(n, parent) ==
    /\ reparents < MaxReparents
    /\ reparents' = reparents + 1
    /\ sgdh' = scene_reparent_to(sgdh, n, parent).sgdh
    /\ last' = Call("reparent_to", n, scene_reparent_to(sgdh, n, parent).out,
                    parent)
    /\ UNCHANGED <<nd, node, child_nodes, handles, status, written, box,
                   quadtree, calls>>

FlatSet(n, fv) ==
    /\ Cardinality(written \cup {<<n, fv[1]>>}) <= MaxSceneWritten
    /\ written' = written \cup {<<n, fv[1]>>}
    /\ sgdh' = scene_set(sgdh, n, fv[1], fv[2])
    /\ last' = Call("set", n, fv[1], -1)
    /\ UNCHANGED <<nd, node, child_nodes, handles, status, reparents, box,
                   quadtree, calls>>

\* a relative getter on node n
FlatGet(n) ==
    /\ sgdh' = clean_node(sgdh, n)
    /\ last' = Call("clean_node", n, "ok", -1)
    /\ UNCHANGED <<nd, node, child_nodes, handles, status, reparents, written,
                   box, quadtree, calls>>

FlatTraverse ==
    /\ sgdh' = scene_traverse(sgdh, 0).sgdh
    /\ last' = Call("scene_traverse", 0,
                    IF scene_traverse(sgdh, 0).out THEN "true" ELSE "false", -1)
    /\ UNCHANGED <<nd, node, child_nodes, handles, status, reparents, written,
                   box, quadtree, calls>>

NextFlat ==
    \/ \E n \in SceneIds : FlatAttach(n)
    \/ \E n, p \in SceneIds : FlatReparent(n, p)
    \/ \E n \in SceneIds, fv \in SceneValues : FlatSet(n, fv)
    \/ \E n \in SceneIds : FlatGet(n)
    \/ FlatTraverse

SpecFlat == InitFlat /\ [][NextFlat]_vars

\* the relative position, scale, angle and depth of node n
Relative(s, n) ==
    [pos |-> s[n + 1].r_pos, scale |-> s[n + 1].r_scale,
     angle |-> s[n + 1].r_angle, depth |-> s[n + 1].r_depth]

(***************************************************************************)
(* C13: in every state the mutators, getters and traversals lead to, and   *)
(* for every node N, minimal_clean on N and scene_traverse from the root   *)
(* of N leave the same relative position, scale, angle and depth in N.     *)
(***************************************************************************)
C13_MinimalCleanAgreesWithTraverse ==
    \A n \in SceneIds :
        Relative(minimal_clean(sgdh, n), n)
            = Relative(scene_traverse(sgdh, SceneRoot(sgdh, n)).sgdh, n)

\* a getter has cleaned part of the graph; N is dirty under a clean parent
\* and under a dirty one, and its cached values are stale in both cases
C13_Witness ==
    /\ last.op = "clean_node"
    /\ \E n \in SceneIds :
          /\ sgdh[n + 1].dirty
          /\ sgdh[n + 1].parent # n
          /\ ~sgdh[sgdh[n + 1].parent + 1].dirty
          /\ Relative(minimal_clean(sgdh, n), n) # Relative(sgdh, n)
    /\ \E n \in SceneIds :
          /\ Len(dirty_path(sgdh, n)) > 1
          /\ Relative(minimal_clean(sgdh, n), n) # Relative(sgdh, n)

\* the relative values of node n computed afresh from the local values along
\* the chain from its root
RECURSIVE Recomputed(_, _)
Recomputed(nodes, n) ==
    IF nodes[n + 1]._parent \notin 0..(Len(nodes) - 1)
    THEN _update_relative(nodes, n)
    ELSE _update_relative(Recomputed(nodes, nodes[n + 1]._parent), n)

(***************************************************************************)
(* C14: a get_relative_pos, _scale, _angle, _depth or _size call on node   *)
(* N, made after mutators on N or its ancestors, returns what a            *)
(* recomputation from the local values along the chain from the root to N  *)
(* gives, and N is not DIRTY afterwards.                                   *)
(***************************************************************************)
C14_GetterReturnsRecomputedValues ==
    (/\ last.op = "get_relative" /\ last.res = "ok"
     /\ UpEnds(node, last.a, {})
     /\ \E w \in written : w[1] = last.a \/ w[1] \in Ancestors(last.a)) =>
        /\ get_relative(node, last.a)
              = get_relative(Recomputed(node, last.a), last.a)
        /\ ~node[last.a + 1]._dirty

\* the nodes of the tree of node n: those whose parent chain ends in its root
Tree(nodes, n) ==
    {m \in 0..(Len(nodes) - 1) :
        UpEnds(nodes, m, {}) /\ Root(nodes, m) = Root(nodes, n)}

(***************************************************************************)
(* C15: a traverse() call on a node whose root is not DIRTY returns false  *)
(* and changes no state; on a node whose root is DIRTY it returns true,    *)
(* and no node of the tree of that root is DIRTY afterwards.               *)
(***************************************************************************)
C15_TraverseCleansTheTree ==
    [][(last'.op = "traverse" /\ last' # last) =>
          IF ~UpEnds(node, last'.a, {}) THEN FALSE
          ELSE IF ~node[Root(node, last'.a) + 1]._dirty
          THEN last'.res = "false"
               /\ UNCHANGED <<nd, node, child_nodes, handles, quadtree>>
          ELSE /\ last'.res = "true"
               /\ \A m \in Tree(node', last'.a) : ~node'[m + 1]._dirty]_vars

\* the ids N.query(Q, depth_sorted) should return: the nodes below n that are
\* not hidden and whose resolved box overlaps Q
Overlapping(n, Q) ==
    {m \in Descendants(n) : ~node[m + 1]._hidden /\ overlap(Q, node[m + 1]._aabb)}

(***************************************************************************)
(* C16: after traverse(), N.query(Q, depth_sorted) returns exactly the     *)
(* non-hidden descendants of N whose resolved AABB overlaps Q, each once   *)
(* (N itself only if it is not hidden and overlaps Q): none is missing,    *)
(* and no other node and no node outside the subtree of N is returned.     *)
(***************************************************************************)
C16_QueryReturnsOverlappingDescendants ==
    Cleaned =>
        \A n \in NodeIds, Q \in SceneQueries, depth_sorted \in BOOLEAN :
            LET r == _query(node, quadtree, n, Q, depth_sorted)
                found == {r.ids[k] : k \in 1..Len(r.ids)}
            IN  r.out = "done" =>
                    /\ found \ {n} = Overlapping(n, Q)
                    /\ n \in found => overlap(Q, node[n + 1]._aabb)
                    /\ Len(r.ids) = Cardinality(found)

\* what N.query(Q) returns in this state, as a set
Returned(n, Q) ==
    {_query(node, quadtree, n, Q, FALSE).ids[k] :
        k \in 1..Len(_query(node, quadtree, n, Q, FALSE).ids)}

(***************************************************************************)
(* C17: after traverse(), while a node N is hidden (hide() was called on   *)
(* it and show() was not since), no query returns N or a descendant of N,  *)
(* for every query box; a node that is not hidden and has no hidden        *)
(* ancestor is eligible: the query on its root returns it for every box    *)
(* that overlaps its resolved box.                                         *)
(***************************************************************************)
C17_HiddenSubtreeIsNotReturned ==
    Cleaned =>
        \A n \in NodeIds : UpEnds(node, n, {}) =>
            IF \E h \in Ancestors(n) \cup {n} : node[h + 1]._hidden
            THEN \A m \in NodeIds, Q \in SceneQueries : n \notin Returned(m, Q)
            ELSE \A Q \in SceneQueries :
                    overlap(Q, node[n + 1]._aabb) =>
                        n \in Returned(Root(node, n), Q)

(***************************************************************************)
(* The calls made on an ExtFreeList by its owner: insert of an element,    *)
(* erase of an index that insert returned and that was not erased since.   *)
(* nd is the list and calls the calls made, with the index each returned   *)
(* or was given.                                                           *)
(***************************************************************************)
Elements == {"p", "q"}

\* the indices the calls cs have returned and not erased since
RECURSIVE Held(_)
Held(cs) ==
    IF cs = <<>> THEN {}
    ELSE IF cs[Len(cs)].op = "insert"
    THEN Held(SubSeq(cs, 1, Len(cs) - 1)) \cup {cs[Len(cs)].index}
    ELSE Held(SubSeq(cs, 1, Len(cs) - 1)) \ {cs[Len(cs)].index}

\* every index the calls cs have returned
Returns(cs) == {cs[k].index : k \in {j \in 1..Len(cs) : cs[j].op = "insert"}}

\* the element the last insert that returned index i was given
Latest(cs, i) ==
    cs[CHOOSE k \in 1..Len(cs) :
          /\ cs[k].op = "insert" /\ cs[k].index = i
          /\ \A j \in (k + 1)..Len(cs) :
                ~(cs[j].op = "insert" /\ cs[j].index = i)].a

InitArena ==
    /\ nd = ExtFreeList
    /\ node = <<>>
    /\ child_nodes = ExtFreeList
    /\ handles = [h \in Handles |-> NoHandle]
    /\ status = "running"
    /\ last = Call("init", 0, "ok", -1)
    /\ reparents = 0
    /\ written = {}
    /\ box = <<>>
    /\ quadtree = <<>>
    /\ calls = <<>>
    /\ sgdh = <<>>

ArenaInsert(element) ==
    /\ Len(calls) < MaxArenaCalls
    /\ nd' = insert(nd, element).list
    /\ calls' = Append(calls, Call("insert", element, "ok",
                                   insert(nd, element).index))
    /\ UNCHANGED <<sgdh, node, child_nodes, handles, status, last, reparents,
                   written, box, quadtree>>

ArenaErase(n) ==
    /\ Len(calls) < MaxArenaCalls
    /\ nd' = erase(nd, n)
    /\ calls' = Append(calls, Call("erase", "", "ok", n))
    /\ UNCHANGED <<sgdh, node, child_nodes, handles, status, last, reparents,
                   written, box, quadtree>>

NextArena ==
    \/ \E element \in Elements : ArenaInsert(element)
    \/ \E n \in Held(calls) : ArenaErase(n)

SpecArena == InitArena /\ [][NextArena]_vars

\* the call a step makes
Made(op) == Len(calls') = Len(calls) + 1 /\ calls'[Len(calls')].op = op

Indices == -1..MaxArenaCalls

RECURSIVE FreshWith(_, _)
FreshWith(B, S) ==
    IF S = {} THEN Quadtree(B, MaxLeafElements, MaxDepth, -1)
    ELSE LET e == CHOOSE x \in S : \A y \in S : y.id <= x.id
         IN  Quadtree_insert(FreshWith(B, S \ {e}), e.id, e.aabb, e.aabb)

\* the ids a query returns, with the number of times each is returned
Counted(ids) ==
    [id \in Ids |-> Cardinality({k \in 1..Len(ids) : ids[k] = id})]

(***************************************************************************)
(* C20: after resize(B) the tree has extent B; every query returns the     *)
(* ids, each as often, that it returns on a fresh tree of extent B into    *)
(* which the stored elements were inserted; and every stored element can   *)
(* be removed with the aabb it was inserted with.                          *)
(***************************************************************************)
C20_ResizePreservesTheElements ==
    (calls # <<>> /\ calls[Len(calls)].op = "resize") =>
        /\ calls[Len(calls)].res = "done"
        /\ quadtree._aabb = calls[Len(calls)].aabb
        /\ \A Q \in Queries :
              Counted(query(quadtree, Q))
                  = Counted(query(FreshWith(calls[Len(calls)].aabb,
                                            Stored(calls)), Q))
        /\ \A e \in Stored(calls) :
              Quadtree_remove(quadtree, e.id, e.aabb).out = "true"

(***************************************************************************)
(* The setters and getters that take another node (node.cpp 681-729,       *)
(* 995-1021).  Each starts with _check_dirty(this, other), which runs     *)
(* traverse() on this node when either of the two is dirty.                *)
(***************************************************************************)
\* inline void Node::_check_dirty(Node& node_a, Node& node_b), called with
\* (this, other): out is "throw", "clean", or what traverse gives
_check_dirty(nodes, cn, qt, n, other, free_node, stale) ==
    IF ~_get_node_data(n) \/ ~_get_node_data(other)
    THEN [node |-> nodes, qt |-> qt, out |-> "throw"]
    ELSE IF nodes[n + 1]._dirty \/ nodes[other + 1]._dirty
    THEN NodeData_traverse(nodes, cn, qt, n, free_node, stale)
    ELSE [node |-> nodes, qt |-> qt, out |-> "clean"]

\* the call went on after _check_dirty
Checked(c) == c.out \in {"clean", "true", "false"}

\* what follows _check_dirty in a setter: set is the local setter, applied
\* to the nodes _check_dirty left
AfterCheck(c, cn, set(_)) ==
    IF Checked(c)
    THEN [node |-> set(c.node).node, cn |-> set(c.node).cn, qt |-> c.qt,
          out |-> set(c.node).out]
    ELSE [node |-> c.node, cn |-> cn, qt |-> c.qt, out |-> c.out]

\* the argument set_depth(Node& other, const int d) hands to set_depth(int)
depth_for(nodes, n, other, d) ==
    nodes[n + 1]._r_depth - nodes[n + 1]._depth - nodes[other + 1]._r_depth + d

\* void Node::set_depth(Node& other, const int d), c being what
\* _check_dirty gave
set_depth_other(c, cn, n, other, d) ==
    AfterCheck(c, cn,
        LAMBDA nodes : set_depth(nodes, cn, n, depth_for(nodes, n, other, d)))

\* int Node::get_depth(Node& other), c being what _check_dirty gave
get_depth_other(c, n, other) ==
    c.node[n + 1]._r_depth - c.node[other + 1]._r_depth

\* the argument set_pos(Node& other, const double x, const double y) hands
\* to set_pos(Vector2&)
offset_for(nodes, n, other, x, y) ==
    <<nodes[other + 1]._r_position[1] - nodes[n + 1]._r_position[1] + x
          + nodes[n + 1]._position[1],
      nodes[other + 1]._r_position[2] - nodes[n + 1]._r_position[2] + y
          + nodes[n + 1]._position[2]>>

\* void Node::set_pos(Node& other, const double x, const double y)
set_pos_other(c, cn, n, other, x, y) ==
    AfterCheck(c, cn,
        LAMBDA nodes : set_pos(nodes, cn, n,
                               offset_for(nodes, n, other, x, y)[1],
                               offset_for(nodes, n, other, x, y)[2]))

\* Vector2 Node::get_pos(Node& other), c being what _check_dirty gave
get_pos_other(c, n, other) ==
    <<c.node[n + 1]._r_position[1] - c.node[other + 1]._r_position[1],
      c.node[n + 1]._r_position[2] - c.node[other + 1]._r_position[2]>>

(***************************************************************************)
(* The calls of these on a tree of at most MaxSceneNodes nodes, built      *)
(* first.  At most MaxRelWritten fields are written by the plain setters,  *)
(* and calls counts the calls that take another node, at most MaxRelCalls. *)
(* The plain setters come before the first of these calls, which are made *)
(* with two different nodes; traverse() is called on the root.  The local  *)
(* positions are those the calls themselves set.                           *)
(* last.index is <<other, argument>> after a setter and <<other, value     *)
(* returned>> after a getter, and calls holds <<op, n, index>> of every    *)
(* call.                                                                   *)
(***************************************************************************)
RelDepths == {0, 3}

\* the state after a call that may have traversed
Related(op, n, r, index) ==
    /\ node' = r.node
    /\ child_nodes' = r.cn
    /\ quadtree' = r.qt
    /\ IF r.qt = <<>> THEN TRUE ELSE Len(r.qt._nodes) <= MaxQuadNodes
    /\ status' = Stopped(r.out)
    /\ last' = Call(op, n, r.out, index)
    /\ calls' = Append(calls, <<op, n, index>>)
    /\ UNCHANGED <<sgdh, nd, handles, reparents, written, box>>

RelCall == status = "running" /\ Len(calls) < MaxRelCalls

SetDepthOther(n, other, d) ==
    /\ RelCall
    /\ \E free_node \in IF quadtree = <<>> THEN Indeterminate ELSE {-1} :
       \E stale \in Stale(quadtree) :
          Related("set_depth_other", n,
                  set_depth_other(_check_dirty(node, child_nodes, quadtree, n,
                                               other, free_node, stale),
                                  child_nodes, n, other, d),
                  <<other, d>>)

\* a getter: what it returns is computed on the nodes _check_dirty leaves
Got(op, n, other, c, value) ==
    Related(op, n, [node |-> c.node, cn |-> child_nodes, qt |-> c.qt,
                    out |-> c.out], <<other, value>>)

GetDepthOther(n, other) ==
    /\ RelCall
    /\ \E free_node \in IF quadtree = <<>> THEN Indeterminate ELSE {-1} :
       \E stale \in Stale(quadtree) :
          \E c \in {_check_dirty(node, child_nodes, quadtree, n, other,
                                 free_node, stale)} :
             Got("get_depth_other", n, other, c, get_depth_other(c, n, other))

SetPosOther(n, other, p) ==
    /\ RelCall
    /\ \E free_node \in IF quadtree = <<>> THEN Indeterminate ELSE {-1} :
       \E stale \in Stale(quadtree) :
          Related("set_pos_other", n,
                  set_pos_other(_check_dirty(node, child_nodes, quadtree, n,
                                             other, free_node, stale),
                                child_nodes, n, other, p[1], p[2]),
                  <<other, p>>)

\* a plain setter
Written(op, n, field, res) ==
    /\ status = "running"
    /\ calls = <<>>
    /\ Cardinality(written \cup {<<n, field>>}) <= MaxRelWritten
    /\ written' = written \cup {<<n, field>>}
    /\ node' = res.node
    /\ child_nodes' = res.cn
    /\ status' = Stopped(res.out)
    /\ last' = Call(op, n, res.out, -1)
    /\ UNCHANGED <<sgdh, nd, handles, reparents, box, quadtree, calls>>

RelSetDepth(n) ==
    Written("set_depth", n, "_depth", set_depth(node, child_nodes, n, 2))

RelSetScale(n) ==
    Written("set_scale", n, "_scale", set_scale(node, child_nodes, n, 2, 1))

RelSetDistanceRelative(n) ==
    Written("set_distance_relative", n, "_distance_relative",
            set_distance_relative(node, child_nodes, n, TRUE))

NextRelDepth ==
    \/ Building /\ NewNode
    \/ Building /\ \E n \in NodeIds : attach_node(n)
    \/ \E n \in NodeIds : RelSetDepth(n)
    \/ \E n \in NodeIds \cap {0} : TraverseScene(n)
    \/ \E n, other \in NodeIds, d \in RelDepths :
          n # other /\ SetDepthOther(n, other, d)
    \/ \E n, other \in NodeIds : n # other /\ GetDepthOther(n, other)

SpecRelDepth == Init /\ [][NextRelDepth]_vars

NextRelPos ==
    \/ Building /\ NewNode
    \/ Building /\ \E n \in NodeIds : attach_node(n)
    \/ \E n \in NodeIds : RelSetScale(n)
    \/ \E n \in NodeIds : RelSetDistanceRelative(n)
    \/ \E n \in NodeIds \cap {0} : TraverseScene(n)
    \/ \E n, other \in NodeIds, p \in Points :
          n # other /\ SetPosOther(n, other, p)

SpecRelPos == Init /\ [][NextRelPos]_vars

(***************************************************************************)
(* C21: for two nodes N and O of one tree, O not in the subtree of N,      *)
(* N.get_depth(O) called right after N.set_depth(O, d) returns d.          *)
(***************************************************************************)
C21_SetDepthOtherThenGetDepthOther ==
    [][(/\ last.op = "set_depth_other" /\ last.res = "ok"
        /\ last'.op = "get_depth_other" /\ Len(calls') = Len(calls) + 1
        /\ last'.a = last.a /\ last'.index[1] = last.index[1]
        /\ last.index[1] \notin Descendants(last.a) \cup {last.a}
        /\ Root(node, last.a) = Root(node, last.index[1])
        /\ Checked([out |-> last'.res])) =>
            last'.index[2] = last.index[2]]_vars

\* a step that is the call N.set_pos(O, p) with every node clean
CleanSetPosOther ==
    /\ last'.op = "set_pos_other" /\ Len(calls') = Len(calls) + 1
    /\ \A m \in NodeIds : ~ND(m)._dirty

(***************************************************************************)
(* C22: when every node is clean and N.get_pos(O) equals p, the call       *)
(* N.set_pos(O, p) writes nothing and sets no DIRTY flag; and when the     *)
(* same call is repeated after a traversal, the repetition writes nothing  *)
(* and sets no DIRTY flag either.                                          *)
(***************************************************************************)
C22_SetPosOtherAtItsValueWritesNothing ==
    [][/\ (/\ CleanSetPosOther
           /\ get_pos_other([node |-> node], last'.a, last'.index[1])
                 = last'.index[2]) =>
              UNCHANGED <<node, child_nodes>>
       /\ (/\ CleanSetPosOther
           /\ calls # <<>>
           /\ calls[Len(calls)] = calls'[Len(calls')]) =>
              UNCHANGED <<node, child_nodes>>]_vars

(***************************************************************************)
(* Sizes and scales: Node::set_size, Node::set_scale and the relative      *)
(* values a traversal gives a chain of scaled nodes.                       *)
(***************************************************************************)

\* void Node::set_size(const double w, const double h): without the test of
\* the old value that set_pos and set_scale make
set_size(nodes, cn, n, w, h) ==
    IF ~_get_node_data(n) THEN Result(nodes, cn, "throw")
    ELSE IF w >= 0 /\ h >= 0
    THEN _propagate_dirty([nodes EXCEPT ![n + 1]._size = <<w, h>>], cn, n)
    ELSE Result(nodes, cn, "throw")

\* a setter of the size, the scale, the position or the distance_relative
\* of node n, called with value
Sized(op, n, field, value, res) ==
    /\ status = "running"
    /\ written' = written \cup {<<n, field>>}
    /\ node' = res.node
    /\ child_nodes' = res.cn
    /\ status' = Stopped(res.out)
    /\ last' = Call(op, n, res.out, value)
    /\ UNCHANGED <<sgdh, nd, handles, reparents, box, quadtree, calls>>

SetSize(n, s) ==
    Sized("set_size", n, "_size", s, set_size(node, child_nodes, n, s[1], s[2]))

SizeSetScale(n, s) ==
    Sized("set_scale", n, "_scale", s,
          set_scale(node, child_nodes, n, s[1], s[2]))

SizeSetPos(n, p) ==
    Sized("set_pos", n, "_position", p,
          set_pos(node, child_nodes, n, p[1], p[2]))

SizeSetDistanceRelative(n, v) ==
    Sized("set_distance_relative", n, "_distance_relative", v,
          set_distance_relative(node, child_nodes, n, v))

\* the sizes and scales set: the present ones, other ones and invalid ones
Sizes == {<<0, 0>>, <<4, 4>>, <<4, -1>>}
SizeScales == {<<2, 2>>, <<0, 2>>}

\* at most MaxSizeWritten fields are written
Within(n, field) == Cardinality(written \cup {<<n, field>>}) <= MaxSizeWritten

NextSize ==
    \/ Building /\ NewNode
    \/ Building /\ \E n \in NodeIds : attach_node(n)
    \/ \E n \in NodeIds, s \in Sizes : Within(n, "_size") /\ SetSize(n, s)
    \/ \E n \in NodeIds, s \in SizeScales :
          Within(n, "_scale") /\ SizeSetScale(n, s)
    \/ \E n \in NodeIds \cap {0} : TraverseScene(n)

SpecSize == Init /\ [][NextSize]_vars

\* the calls of the scenario: the sizes of the child and of the grandchild,
\* the position of the grandchild, the scale of the child; and the flag
\* that is not the default
ScenarioSizes == {<<1, <<10, 10>>>>, <<2, <<4, 4>>>>}
ScenarioPoints == {<<2, <<2, 2>>>>}
ScenarioScales == {<<1, <<2, 2>>>>}
ScenarioFlags == {<<1, TRUE>>}

NextScenario ==
    \/ Building /\ NewNode
    \/ Building /\ \E n \in NodeIds : attach_node(n)
    \/ \E c \in ScenarioSizes : c[1] \in NodeIds /\ SetSize(c[1], c[2])
    \/ \E c \in ScenarioPoints : c[1] \in NodeIds /\ SizeSetPos(c[1], c[2])
    \/ \E c \in ScenarioScales : c[1] \in NodeIds /\ SizeSetScale(c[1], c[2])
    \/ \E c \in ScenarioFlags :
          c[1] \in NodeIds /\ SizeSetDistanceRelative(c[1], c[2])
    \/ \E n \in NodeIds \cap {0} : TraverseScene(n)

SpecScenario == Init /\ [][NextScenario]_vars

\* root 0, its child 1 of size (10, 10) at (0, 0) and scale (2, 2), and the
\* child 2 of node 1 of size (4, 4) at (2, 2), all clean
Scenario ==
    /\ NodeIds = {0, 1, 2}
    /\ ND(1)._parent = 0 /\ ND(2)._parent = 1
    /\ ND(0)._size = <<0, 0>> /\ ND(0)._scale = <<1, 1>>
    /\ ND(0)._position = <<0, 0>>
    /\ ND(1)._size = <<10, 10>> /\ ND(1)._position = <<0, 0>>
    /\ ND(1)._scale = <<2, 2>>
    /\ ND(2)._size = <<4, 4>> /\ ND(2)._position = <<2, 2>>
    /\ ND(2)._scale = <<1, 1>>
    /\ \A m \in NodeIds : ~ND(m)._distance_relative /\ ND(m)._origin = 0
    /\ \A m \in NodeIds : ~ND(m)._dirty

(***************************************************************************)
(* C23: in the scenario, after the clean, get_relative_pos() of the        *)
(* grandchild is (4, 4) and its get_relative_size() is (8, 8).             *)
(***************************************************************************)
C23_ScaledChildPosition ==
    Scenario => /\ get_relative(node, 2).pos = <<4, 4>>
                /\ get_relative(node, 2).size = <<8, 8>>

(***************************************************************************)
(* C23, amended: the position is not scaled without distance_relative, so  *)
(* get_relative_pos() of the grandchild is (2, 2); its relative size is    *)
(* (8, 8).                                                                 *)
(***************************************************************************)
C23_UnscaledChildPosition ==
    Scenario => /\ get_relative(node, 2).pos = <<2, 2>>
                /\ get_relative(node, 2).size = <<8, 8>>

C23_Witness == Scenario /\ last.op = "traverse" /\ last.res \in {"true", "false"}


\* the step is a call of op on a node of the graph
Calling(op) == last'.op = op /\ last'.a \in NodeIds

\* node n, the nodes above it and the nodes below it
Line(n) == {m \in NodeIds : m = n \/ m \in Descendants(n) \/ n \in Descendants(m)}

(***************************************************************************)
(* C24: set_size called with the size the node has leaves the dirty flag   *)
(* of the node, of its ancestors and of its descendants as they were.      *)
(***************************************************************************)
C24_SetSizeOfTheSameSizeMarksNothing ==
    [][(Calling("set_size") /\ last'.index = ND(last'.a)._size) =>
          \A m \in Line(last'.a) : node'[m + 1]._dirty = node[m + 1]._dirty]_vars

\* the call has a scale that is not positive, or a negative size
Invalid(call) ==
    \/ call.op = "set_scale" /\ (call.index[1] <= 0 \/ call.index[2] <= 0)
    \/ call.op = "set_size" /\ (call.index[1] < 0 \/ call.index[2] < 0)

(***************************************************************************)
(* C26: set_scale with a component that is not positive and set_size with  *)
(* a negative component throw, and leave the scale and the size of the     *)
(* node and the dirty flag of every node as they were.                     *)
(***************************************************************************)
C26_InvalidScaleOrSizeThrows ==
    [][((Calling("set_scale") \/ Calling("set_size")) /\ Invalid(last')) =>
          /\ last'.res = "throw"
          /\ node'[last'.a + 1]._scale = node[last'.a + 1]._scale
          /\ node'[last'.a + 1]._size = node[last'.a + 1]._size
          /\ \A m \in NodeIds : node'[m + 1]._dirty = node[m + 1]._dirty]_vars

\* an invalid set_scale has thrown on a clean node whose size was set, and
\* the node is still clean
C26_Witness ==
    /\ last.op = "set_scale" /\ Invalid(last) /\ last.res = "throw"
    /\ <<last.a, "_size">> \in written
    /\ ND(last.a)._size = <<4, 4>>
    /\ ~ND(last.a)._dirty


(***************************************************************************)
(* Moves of handles (node.cpp 484-491, 510-524).                           *)
(***************************************************************************)
\* the step moves handle b, which holds an active record, into handle a,
\* which holds no record or another one
Moved(a, b) ==
    /\ a # b
    /\ active(nd, handles[b]._node_id)
    /\ handles[a]._node_id # handles[b]._node_id
    /\ Node_move_ctor(a, b) \/ Node_move_assign(a, b)

\* record n has one reference less after the step: the last one frees it
LostOne(n) ==
    IF ND(n)._ref_count = 1 THEN ~active(nd', n)
    ELSE active(nd', n) /\ node'[n + 1]._ref_count = ND(n)._ref_count - 1

\* b has given its record to a
Transferred(a, b) ==
    /\ handles'[b]._node_id = -1
    /\ handles'[a]._node_id = handles[b]._node_id
    /\ active(nd', handles[b]._node_id)
    /\ node'[handles[b]._node_id + 1]._ref_count = ND(handles[b]._node_id)._ref_count
    /\ active(nd, handles[a]._node_id) => LostOne(handles[a]._node_id)

(***************************************************************************)
(* C25: after the move construction or the move assignment of b into a, b  *)
(* holds no record, a holds the record b held, the reference count of that *)
(* record is what it was, and the record a held has one reference less.    *)
(***************************************************************************)
C25_MoveTransfersOwnership ==
    [][\A a, b \in Handles : Moved(a, b) => Transferred(a, b)]_vars


(***************************************************************************)
(* Quadtree::remove of an element that is not there (quadtree.cpp          *)
(* 239-297): the calls of SpecQuadtree that change the tree, and remove    *)
(* with an id that is never inserted.                                      *)
(***************************************************************************)
\* the aabbs of the elements: a point and a box
RemoveBoxes ==
    {AABB(-Quarter, -3 * Quarter, 0, 0),
     AABB(Quarter, Quarter, 2 * Quarter, 2 * Quarter)}

\* a call that gave res
Answered(op, id, aabb, res) ==
    /\ Len(calls) < MaxRemoveCalls
    /\ Running
    /\ quadtree' = res.qt
    /\ calls' = Append(calls, Called(op, id, aabb, res.out, <<>>))
    /\ UNCHANGED <<sgdh, nd, node, child_nodes, handles, status, last, reparents,
                   written, box>>

\* the id 0 is never inserted
NextRemove ==
    \/ \E id \in Ids, aabb \in RemoveBoxes :
          /\ \A e \in Stored(calls) : e.id # id
          /\ Answered("insert", id, aabb,
                       [qt |-> Quadtree_insert(quadtree, id, aabb, aabb),
                        out |-> "true"])
    \/ \E id \in Ids \cup {0}, aabb \in RemoveBoxes :
          Answered("remove", id, aabb, Quadtree_remove(quadtree, id, aabb))
    \/ Answered("cleanup", -1, AABB_default, cleanup(quadtree))

SpecRemove == InitQuadtree /\ [][NextRemove]_vars

\* the leaf the descent of remove ends in, -1 when it leaves _nodes
RECURSIVE Resolved(_, _, _, _, _)
Resolved(qt, aabb, node_index, current_quadrant, fuel) ==
    IF ~NodeInRange(qt, node_index) \/ fuel = 0 THEN -1
    ELSE IF qt._nodes[node_index + 1].count = -1
    THEN Resolved(qt, aabb,
             qt._nodes[node_index + 1].first_child
                 + find_quadrant(current_quadrant, aabb.x, aabb.y),
             split_center(current_quadrant,
                          find_quadrant(current_quadrant, aabb.x, aabb.y)),
             fuel - 1)
    ELSE node_index

\* the ids of the elements of the list from element_node_id
RECURSIVE ListIds(_, _, _)
ListIds(qt, element_node_id, fuel) ==
    IF element_node_id < 0 \/ element_node_id >= Len(qt._element_nodes.data)
       \/ fuel = 0
    THEN {}
    ELSE {qt._elements.data[
              qt._element_nodes.data[element_node_id + 1].element + 1].id}
         \cup ListIds(qt, qt._element_nodes.data[element_node_id + 1].next,
                      fuel - 1)

\* the ids in the leaf aabb resolves to
InLeaf(qt, aabb) ==
    LET leaf == Resolved(qt, aabb, 0, qt._aabb, Len(qt._nodes) + 1)
    IN  IF leaf = -1 \/ qt._nodes[leaf + 1].count = 0 THEN {}
        ELSE ListIds(qt, qt._nodes[leaf + 1].first_child,
                     Len(qt._element_nodes.data))

\* the step is a call of remove; its leaf exists and does not hold its id
RemovesAbsent ==
    /\ Len(calls') = Len(calls) + 1
    /\ calls'[Len(calls')].op = "remove"
    /\ Resolved(quadtree, calls'[Len(calls')].aabb, 0, quadtree._aabb,
                Len(quadtree._nodes) + 1) # -1
    /\ calls'[Len(calls')].id \notin InLeaf(quadtree, calls'[Len(calls')].aabb)

(***************************************************************************)
(* C27: remove(id, A) throws and leaves the tree as it was when the leaf   *)
(* the centre of A resolves to is empty or does not hold id, whether the   *)
(* leaf holds one element or several.                                      *)
(***************************************************************************)
C27_RemoveOfAbsentThrows ==
    [][RemovesAbsent =>
          /\ calls'[Len(calls')].res = "throw"
          /\ quadtree' = quadtree]_vars


(***************************************************************************)
(* Calls through handles that hold no active record (node.cpp 553-576,     *)
(* 586-618, 638-644): handles are constructed, moved and destroyed, hide() *)
(* is called through a handle and reparent_to(int) with any index.         *)
(***************************************************************************)
\* a call through handle h, of record n, that gave res
Through(op, h, n, res, index) ==
    /\ node' = res.node
    /\ child_nodes' = res.cn
    /\ Size(res.cn) <= MaxChildNodes
    /\ \E out \in Outcomes(res.out) :
          /\ status' = Stopped(out)
          /\ last' = Call(op, n, out, index)
    /\ UNCHANGED <<sgdh, nd, handles, written, box, quadtree, calls>>

\* h.hide()
HandleHide(h) ==
    /\ status = "running"
    /\ Live(h)
    /\ Through("hide", h, handles[h]._node_id,
               hide(node, child_nodes, handles[h]._node_id), -1)
    /\ UNCHANGED reparents

\* h.reparent_to(parent)
HandleReparentTo(h, parent) ==
    /\ status = "running"
    /\ Live(h)
    /\ reparents < MaxReparents
    /\ reparents' = reparents + 1
    /\ Through("reparent_to", h, handles[h]._node_id,
               reparent_to(node, child_nodes, handles[h]._node_id, parent),
               parent)

NextInactive ==
    \/ \E h \in Handles : Node_ctor(h)
    \/ \E h \in Handles : Node_dtor(h)
    \/ \E h, o \in Handles : Node_move_ctor(h, o)
    \/ \E h \in Handles : HandleHide(h)
    \/ \E h \in Handles, parent \in -1..MaxRecords : HandleReparentTo(h, parent)

SpecInactive == InitHandle /\ [][NextInactive]_vars

\* the step is a call through a handle whose record is not active, or a
\* reparent_to with an index that is not an active record
OnInactive ==
    /\ last'.op \in {"hide", "reparent_to"}
    /\ \/ ~active(nd, last'.a)
       \/ last'.op = "reparent_to" /\ ~active(nd, last'.index)

\* the parent and the flags of every record, and the child lists
Relations(nodes) ==
    [m \in 1..Len(nodes) |->
        <<nodes[m]._parent, nodes[m]._first_child, nodes[m]._dirty,
          nodes[m]._hidden, nodes[m]._distance_relative>>]

(***************************************************************************)
(* C28: a call through a handle whose record is not active, and            *)
(* reparent_to(p) with p not an active record, throws and leaves the       *)
(* parent, the child list and the flags of every node as they were.        *)
(***************************************************************************)
C28_InactiveRecordThrows ==
    [][OnInactive =>
          /\ last'.res = "throw"
          /\ Relations(node') = Relations(node)
          /\ child_nodes' = child_nodes]_vars


(***************************************************************************)
(* The child lists across reparent_to (node.cpp 181-232, 553-576).         *)
(***************************************************************************)
\* the child list of node m in the lists cn
ListOf(nodes, cn, m) == Children(cn, nodes[m + 1]._first_child, {})

\* the list s without n
Without(s, n) == SelectSeq(s, LAMBDA m : m # n)

\* the step is n.reparent_to(p) and it has returned
Reparented(n, p) ==
    /\ reparents' = reparents + 1
    /\ last'.op = "reparent_to" /\ last'.res = "ok"
    /\ last'.a = n /\ last'.index = p

(***************************************************************************)
(* C29: after N.reparent_to(P) has returned, wherever N was in the child   *)
(* list of its old parent: the parent of N is P, N is once in the child    *)
(* list of P and in no other child list, the child list of the old parent  *)
(* is its previous list without N, and the child lists of all other nodes  *)
(* are unchanged.                                                          *)
(***************************************************************************)
C29_ReparentMovesOneChild ==
    [][\A n, p \in NodeIds :
          Reparented(n, p) =>
              /\ node'[n + 1]._parent = p
              /\ Len(ListOf(node', child_nodes', p))
                     = Len(Without(ListOf(node', child_nodes', p), n)) + 1
              /\ \A m \in NodeIds \ {p} :
                    ListOf(node', child_nodes', m)
                        = Without(ListOf(node, child_nodes, m), n)]_vars


(***************************************************************************)
(* What cleanup leaves (quadtree.cpp 302-335).                             *)
(***************************************************************************)
\* the branches of the tree from node_index down
RECURSIVE Branches(_, _, _)
Branches(qt, node_index, fuel) ==
    IF ~NodeInRange(qt, node_index) \/ fuel = 0 THEN {}
    ELSE IF qt._nodes[node_index + 1].count # -1 THEN {}
    ELSE {node_index}
         \cup UNION {Branches(qt, qt._nodes[node_index + 1].first_child + j,
                              fuel - 1) : j \in 0..3}

\* the four children of branch b are leaves without elements
Collapsible(qt, b) ==
    \A j \in 0..3 :
        /\ NodeInRange(qt, qt._nodes[b + 1].first_child + j)
        /\ qt._nodes[qt._nodes[b + 1].first_child + j + 1].count = 0

\* the last call was cleanup, and it returned
CleanedUp ==
    /\ calls # <<>>
    /\ calls[Len(calls)].op = "cleanup" /\ calls[Len(calls)].res = "true"

(***************************************************************************)
(* C30: after cleanup() has returned no branch is left whose four children *)
(* are leaves without elements, nested branches included: a tree all of    *)
(* whose elements were removed is a single empty root, and no stored       *)
(* element is lost.                                                        *)
(***************************************************************************)
C30_CleanupCollapsesEveryEmptyBranch ==
    CleanedUp =>
        /\ \A b \in Branches(quadtree, 0, Len(quadtree._nodes)) :
              ~Collapsible(quadtree, b)
        /\ Stored(calls) = {} => quadtree._nodes[1] = QuadNode(-1, 0)
        /\ \A e \in Stored(calls) :
              \E k \in 1..Len(query(quadtree, Everywhere)) :
                  query(quadtree, Everywhere)[k] = e.id


\* the step is a call of cleanup that returned
CleaningUp ==
    /\ Len(calls') = Len(calls) + 1
    /\ calls'[Len(calls')].op = "cleanup" /\ calls'[Len(calls')].res = "true"

(***************************************************************************)
(* C30, amended: cleanup() makes an empty leaf of every branch whose four  *)
(* children were leaves without elements when it was called, and leaves    *)
(* every other branch a branch, also one whose last branch child it has    *)
(* just collapsed: nested empty branches go one level a call.  No query    *)
(* returns anything else than before, so no stored element is lost.        *)
(***************************************************************************)
C30_CleanupCollapsesOneLevel ==
    [][CleaningUp =>
          /\ \A b \in Branches(quadtree, 0, Len(quadtree._nodes)) :
                quadtree'._nodes[b + 1] =
                    IF Collapsible(quadtree, b) THEN QuadNode(-1, 0)
                    ELSE quadtree._nodes[b + 1]
          /\ \A Q \in Queries \cup {Everywhere} :
                query(quadtree', Q) = query(quadtree, Q)]_vars

\* cleanup has collapsed the nested branch of a tree without elements, and
\* the root is still a branch, of four empty leaves
C30_Witness ==
    /\ CleanedUp
    /\ Stored(calls) = {}
    /\ quadtree._nodes[1].count = -1
    /\ Collapsible(quadtree, 0)
    /\ quadtree._free_node > 4


(***************************************************************************)
(* The quadtree of the root across attach_node, set_pos, destructors and   *)
(* traversals (node.cpp 65-137, 459-471).  Every record has one handle, so *)
(* the destructor of the handle of node n erases record n; the handle of   *)
(* the root stays, and traverse() is called on it.                         *)
(***************************************************************************)
\* ~Node() of the handle of node n
Destroy(n) ==
    /\ status = "running"
    /\ active(nd, n)
    /\ dtor_erases(n)
    /\ <<n, "~Node">> \notin written
    /\ written' = written \cup {<<n, "~Node">>}
    /\ nd' = erase(nd, n)
    /\ node' = Objects(node, nd')
    /\ last' = Call("~Node", n, "ok", -1)
    /\ UNCHANGED <<sgdh, child_nodes, handles, status, reparents, box, quadtree,
                   calls>>

\* the records that are not erased
LiveIds == {n \in NodeIds : active(nd, n)}

NextTrack ==
    \/ Size(nd) = 0 /\ NewNode
    \/ \E n \in LiveIds : Size(nd) < MaxSceneNodes /\ attach_node(n)
    \/ \E n \in LiveIds : SetPos(n)
    \/ \E n \in LiveIds \ {0} : Destroy(n)
    \/ \E n \in LiveIds \cap {0} : TraverseScene(n)

SpecTrack == Init /\ [][NextTrack]_vars

\* the leaves of the tree
Leaves(qt) ==
    IF qt._nodes[1].count # -1 THEN {0}
    ELSE {l \in 0..(Len(qt._nodes) - 1) :
             /\ qt._nodes[l + 1].count # -1
             /\ \E b \in Branches(qt, 0, Len(qt._nodes)) :
                   l \in {qt._nodes[b + 1].first_child + j : j \in 0..3}}

\* the element nodes of the list from element_node_id
RECURSIVE ListNodes(_, _, _)
ListNodes(qt, element_node_id, fuel) ==
    IF element_node_id < 0 \/ element_node_id >= Len(qt._element_nodes.data)
       \/ fuel = 0
    THEN {}
    ELSE {element_node_id}
         \cup ListNodes(qt, qt._element_nodes.data[element_node_id + 1].next,
                        fuel - 1)

\* the element nodes in the lists of the leaves
Tracked(qt) ==
    UNION {ListNodes(qt, qt._nodes[l + 1].first_child,
                     Len(qt._element_nodes.data)) : l \in Leaves(qt)}

\* the element of element node e
ElementOf(qt, e) == qt._elements.data[qt._element_nodes.data[e + 1].element + 1]

\* the live nodes of the tree of the root
Subtree == {m \in Tree(node, 0) : active(nd, m)}

(***************************************************************************)
(* C31: after traverse() on the root, its quadtree holds the live nodes of *)
(* its subtree and nothing else, each once and with the aabb it has now,   *)
(* and no query gives the id of an erased record.                          *)
(***************************************************************************)
C31_QuadtreeTracksTheLiveSubtree ==
    (Cleaned /\ quadtree # <<>>) =>
        /\ {ElementOf(quadtree, e).id : e \in Tracked(quadtree)} = Subtree
        /\ Cardinality(Tracked(quadtree)) = Cardinality(Subtree)
        /\ \A e \in Tracked(quadtree) :
              ElementOf(quadtree, e).id \in Subtree =>
                  ElementOf(quadtree, e).aabb
                      = node[ElementOf(quadtree, e).id + 1]._aabb
        /\ \A Q \in SceneQueries :
              \A k \in 1..Len(query(quadtree, Q)) :
                  query(quadtree, Q)[k] \in Subtree


(***************************************************************************)
(* The extent of the quadtree of the root (node.cpp 76-117): positions are *)
(* set on two axes, so that the bounds of the nodes a traversal visits can *)
(* leave out a node it does not visit.                                     *)
(***************************************************************************)
ExtentPoints == {<<16, 0>>, <<0, 16>>}

NextExtent ==
    \/ Building /\ NewNode
    \/ Building /\ \E n \in NodeIds : attach_node(n)
    \/ \E n \in NodeIds, p \in ExtentPoints :
          Within(n, "_position") /\ SizeSetPos(n, p)
    \/ \E n \in NodeIds \cap {0} : TraverseScene(n)

SpecExtent == Init /\ [][NextExtent]_vars

\* the step is a traverse() that returned true
Rebuilt == last'.op = "traverse" /\ last'.res = "true" /\ node' # node

(***************************************************************************)
(* C32: after a traverse() that returned true the extent of the quadtree   *)
(* of the root contains the aabb of every node of the tree, the nodes that *)
(* were clean and not visited too; and the extent is replaced only when    *)
(* the aabb of some node of the tree lies outside it.                      *)
(***************************************************************************)
C32_ExtentContainsEveryNode ==
    [][Rebuilt =>
          /\ \A m \in Tree(node', 0) :
                inside_aabb(quadtree'._aabb, node'[m + 1]._aabb)
          /\ (quadtree # <<>> /\ quadtree'._aabb # quadtree._aabb) =>
                \E m \in Tree(node', 0) :
                    ~inside_aabb(quadtree._aabb, node'[m + 1]._aabb)]_vars


(***************************************************************************)
(* The parents and the child lists across constructors, destructors,       *)
(* attach_node and reparent_to (node.cpp 181-232, 459-471, 529-576).       *)
(***************************************************************************)
NextRelations ==
    \/ NewNode
    \/ \E n \in LiveIds : Size(nd) < MaxSceneNodes /\ attach_node(n)
    \/ \E n, p \in LiveIds : ReparentTo(n, p)
    \/ \E n \in LiveIds : Destroy(n)

SpecRelations == Init /\ [][NextRelations]_vars

\* the nodes in the child list of node p
ChildrenOf(p) ==
    {ListOf(node, child_nodes, p)[k] :
        k \in 1..Len(ListOf(node, child_nodes, p))}

(***************************************************************************)
(* C33: the parent of every live node and every entry of the child list of *)
(* every live node is an active record, and X is in the child list of P    *)
(* exactly when the parent of X is P.                                      *)
(***************************************************************************)
C33_RelationsReferToActiveRecords ==
    status = "running" =>
        /\ \A n \in LiveIds :
              /\ ND(n)._parent = -1 \/ active(nd, ND(n)._parent)
              /\ \A c \in ChildrenOf(n) : active(nd, c)
        /\ \A x, p \in LiveIds : x \in ChildrenOf(p) <=> ND(x)._parent = p


\* the nodes that are dirty while their parent is not
CleanAbove == {n \in NodeIds : /\ ND(n)._dirty
                               /\ ND(n)._parent \in NodeIds
                               /\ ~ND(ND(n)._parent)._dirty}

(***************************************************************************)
(* C34: between public operations the dirty flag is upward-closed: the     *)
(* parent of a dirty node is dirty, hence so is every ancestor up to the   *)
(* root.                                                                   *)
(***************************************************************************)
C34_DirtyIsUpwardClosed ==
    status = "running" => CleanAbove = {}


(***************************************************************************)
(* The structure of a Quadtree across insert, remove, move, cleanup and    *)
(* resize (quadtree.cpp 112-297, 302-335, 353-395).                        *)
(***************************************************************************)
\* the slots of list l on its chain of free slots from n
RECURSIVE FreeSlots(_, _, _, _)
FreeSlots(l, member, n, fuel) ==
    IF n < 0 \/ n >= Len(l.data) \/ fuel = 0 THEN {}
    ELSE {n} \cup FreeSlots(l, member, l.data[n + 1][member], fuel - 1)

\* the slots of _elements that hold an element
HeldSlots(qt) ==
    (0..(Len(qt._elements.data) - 1))
        \ FreeSlots(qt._elements, "id", qt._elements.first_free,
                    Len(qt._elements.data))

HeldIds(qt) == {qt._elements.data[e + 1].id : e \in HeldSlots(qt)}

\* the element nodes in the list of leaf l
InList(qt, l) ==
    ListNodes(qt, qt._nodes[l + 1].first_child, Len(qt._element_nodes.data))

\* the places, a leaf and an element node of its list, that hold element e
Places(qt, e) ==
    {pl \in Leaves(qt) \X (0..(Len(qt._element_nodes.data) - 1)) :
        /\ pl[2] \in InList(qt, pl[1])
        /\ qt._element_nodes.data[pl[2] + 1].element = e}

\* a call of the structure walk that gave res
Structured(op, id, aabb, res) ==
    /\ Len(calls) < MaxCalls
    /\ Running
    /\ quadtree' = res.qt
    /\ calls' = Append(calls, Called(op, id, aabb, res.out, <<>>))
    /\ UNCHANGED <<sgdh, nd, node, child_nodes, handles, status, last, reparents,
                   written, box>>

NextStructure ==
    \/ \E id \in Ids, aabb \in RemoveBoxes :
          /\ id \notin HeldIds(quadtree)
          /\ Structured("insert", id, aabb,
                       [qt |-> Quadtree_insert(quadtree, id, aabb, aabb),
                        out |-> "true"])
    \/ \E id \in Ids, aabb \in RemoveBoxes :
          Structured("remove", id, aabb, Quadtree_remove(quadtree, id, aabb))
    \/ \E id \in Ids, aabb_from, aabb_to \in RemoveBoxes :
          Structured("move", id, aabb_to, move(quadtree, id, aabb_from, aabb_to))
    \/ Structured("cleanup", -1, AABB_default, cleanup(quadtree))
    \/ \E aabb \in Extents :
          \E stale \in IF Reallocates(quadtree._elements) THEN RemoveBoxes
                       ELSE {aabb} :
              Structured("resize", -1, aabb, resize(quadtree, aabb, stale))

SpecStructure == InitQuadtree /\ [][NextStructure]_vars

(***************************************************************************)
(* C35: in every state insert, remove, move, cleanup and resize reach, the *)
(* count of each leaf is the length of its list, every stored element is   *)
(* in the list of exactly one leaf, and that leaf is the one the descent   *)
(* from the root with the centre of the element ends in.                   *)
(***************************************************************************)
C35_LeavesHoldTheirElements ==
    Running =>
        /\ \A l \in Leaves(quadtree) :
              quadtree._nodes[l + 1].count = Cardinality(InList(quadtree, l))
        /\ \A e \in HeldSlots(quadtree) :
              /\ Cardinality(Places(quadtree, e)) = 1
              /\ \A pl \in Places(quadtree, e) :
                    pl[1] = Resolved(quadtree, quadtree._elements.data[e + 1].aabb,
                                     0, quadtree._aabb, Len(quadtree._nodes) + 1)


(***************************************************************************)
(* Queries of a tree whose nodes differ in depth (node.cpp 139-176).       *)
(***************************************************************************)
NextSorted ==
    \/ Building /\ NewNode
    \/ Building /\ \E n \in NodeIds : attach_node(n)
    \/ \E n \in NodeIds : SetDepth(n)
    \/ \E n \in NodeIds : Hide(n)
    \/ \E n \in NodeIds \cap {0} : TraverseScene(n)
    \/ \E n \in NodeIds, aabb \in SceneQueries, depth_sorted \in BOOLEAN :
          QueryScene(n, aabb, depth_sorted)

SpecSorted == Init /\ [][NextSorted]_vars

\* the ids of a result
IdsOf(ids) == {ids[k] : k \in 1..Len(ids)}

\* a query of node n with aabb, sorted by depth and as collected
Sorted(n, aabb) == _query(node, quadtree, n, aabb, TRUE)

Collected(n, aabb) == _query(node, quadtree, n, aabb, FALSE)

(***************************************************************************)
(* C36: query with depth_sorted = true returns the ids that query with     *)
(* depth_sorted = false returns, each as often, in an order in which the   *)
(* resolved relative depth never decreases.                                *)
(***************************************************************************)
C36_DepthSortedQueryIsASortedPermutation ==
    status = "running" =>
        \A n \in NodeIds, aabb \in SceneQueries :
            Sorted(n, aabb).out = "done" =>
                /\ Collected(n, aabb).out = "done"
                /\ IdsOf(Sorted(n, aabb).ids) = IdsOf(Collected(n, aabb).ids)
                /\ Len(Sorted(n, aabb).ids) = Len(Collected(n, aabb).ids)
                /\ \A i, k \in 1..Len(Sorted(n, aabb).ids) :
                      i < k => ND(Sorted(n, aabb).ids[i])._r_depth
                                   <= ND(Sorted(n, aabb).ids[k])._r_depth

\* a query has returned in a state in which sorting changes the order of a
\* result of nodes of different depths
C36_Witness ==
    /\ status = "running"
    /\ last.op = "query" /\ last.res = "done"
    /\ \E aabb \in SceneQueries :
          /\ Sorted(last.a, aabb).out = "done"
          /\ Len(Sorted(last.a, aabb).ids) >= 2
          /\ Sorted(last.a, aabb).ids # Collected(last.a, aabb).ids


(***************************************************************************)
(* SmallList (list_t.hpp 192-313): an array of 128 elements, replaced by a *)
(* std::vector by the push_back that finds the array full.  The list is    *)
(* held in box; calls is the history of the calls made on it, id being the *)
(* element pushed or returned.                                             *)
(***************************************************************************)
InlineCapacity == 128

\* SmallList<T>::SmallList(); the elements of _a are not initialised, and
\* none is read before it was written: -1 stands for what they hold
SmallList ==
    [_a |-> [i \in 1..InlineCapacity |-> -1],
     _size |-> 0,
     _is_vec |-> FALSE,
     _v |-> <<>>]

\* push_back whose promotion leaves the new element out
push_back_promoting_only(l, element) ==
    IF l._is_vec THEN [l EXCEPT !._v = Append(@, element)]
    ELSE IF l._size < InlineCapacity
    THEN [l EXCEPT !._a[l._size + 1] = element, !._size = @ + 1]
    ELSE [l EXCEPT !._is_vec = TRUE, !._v = l._a]

\* void SmallList<T>::push_back(const T& element)
push_back(l, element) ==
    IF l._is_vec THEN [l EXCEPT !._v = Append(@, element)]
    ELSE IF l._size < InlineCapacity
    THEN [l EXCEPT !._a[l._size + 1] = element, !._size = @ + 1]
    ELSE [l EXCEPT !._is_vec = TRUE, !._v = Append(l._a, element)]

\* T SmallList<T>::pop_back(), of a list that is not empty
pop_back(l) ==
    IF l._is_vec
    THEN [list |-> [l EXCEPT !._v = Pop(@)], ret |-> l._v[Len(l._v)]]
    ELSE [list |-> [l EXCEPT !._size = @ - 1], ret |-> l._a[l._size]]

\* size_t SmallList<T>::size()
size(l) == IF l._is_vec THEN Len(l._v) ELSE l._size

InitList ==
    /\ nd = ExtFreeList
    /\ node = <<>>
    /\ child_nodes = ExtFreeList
    /\ handles = [h \in Handles |-> NoHandle]
    /\ status = "running"
    /\ last = Call("init", 0, "ok", -1)
    /\ reparents = 0
    /\ written = {}
    /\ box = SmallList
    /\ quadtree = <<>>
    /\ calls = <<>>
    /\ sgdh = <<>>

\* the element pushed is the number of the call: no two pushes are alike
PushBack ==
    /\ Len(calls) < MaxListCalls
    /\ box' = push_back(box, Len(calls) + 1)
    /\ calls' = Append(calls, Called("push_back", Len(calls) + 1, AABB_default,
                                     "done", <<>>))
    /\ UNCHANGED <<sgdh, nd, node, child_nodes, handles, status, last, reparents,
                   written, quadtree>>

\* pops are made once the list has grown close to the capacity of the array
PopBack ==
    /\ Len(calls) < MaxListCalls
    /\ Len(calls) >= PopAfter
    /\ size(box) > 0
    /\ box' = pop_back(box).list
    /\ calls' = Append(calls, Called("pop_back", pop_back(box).ret, AABB_default,
                                     "done", <<>>))
    /\ UNCHANGED <<sgdh, nd, node, child_nodes, handles, status, last, reparents,
                   written, quadtree>>

NextList == PushBack \/ PopBack

SpecList == InitList /\ [][NextList]_vars

\* the pushes less the pops among the calls a..b
Balance(a, b) ==
    Cardinality({k \in a..b : calls[k].op = "push_back"})
        - Cardinality({k \in a..b : calls[k].op = "pop_back"})

\* the pushes among the first n calls after which as many pushes as pops
\* were made: the last of them is the last push not yet popped
Level(n) ==
    {k \in 1..n : calls[k].op = "push_back" /\ Balance(k + 1, n) = 0}

\* the element pushed last among those the first n calls left in the list
Top(n) == calls[CHOOSE k \in Level(n) : \A m \in Level(n) : m <= k].id

\* the number of calls of op made
CallsOf(op) == Cardinality({k \in 1..Len(calls) : calls[k].op = op})

(***************************************************************************)
(* C37: whatever push_back and pop_back calls were made, none on an empty  *)
(* list, size() is the number of pushes less the number of pops, and a     *)
(* pop_back returned the element pushed last among those not yet popped;   *)
(* so it is when the list grew past 128 elements and shrank again.         *)
(***************************************************************************)
C37_SmallListIsAStack ==
    calls # <<>> =>
        /\ size(box) = CallsOf("push_back") - CallsOf("pop_back")
        /\ calls[Len(calls)].op = "pop_back" =>
              calls[Len(calls)].id = Top(Len(calls) - 1)

\* a pop_back of a list that was promoted to the vector and is shorter than
\* the array again
C37_Witness ==
    /\ calls # <<>>
    /\ calls[Len(calls)].op = "pop_back"
    /\ box._is_vec
    /\ size(box) < InlineCapacity


(***************************************************************************)
(* Animations (animation.hpp, animation.cpp).  A time and a coordinate are *)
(* integers; a Vec2 and a Scale are one number.  The flags of an           *)
(* ActiveAnimationMap entry are the set of their bits: 1 position, 4       *)
(* scale.  The ends drawn are multiples of 8 apart from the start values,  *)
(* so that the quotients of the interpolation are exact.  The animated     *)
(* Node is its position and its scale.                                     *)
(***************************************************************************)
AnimNodes == 0..(MaxAnimNodes - 1)

AnimNode == [pos |-> 0, scale |-> 1]

\* AnimationData of an Interval after set_node(node), set_duration(duration)
\* and add_pos(pos_end) / add_scale(scale_end) for the flags in flags
AnimationData(n, duration, flags, pos_end, scale_end) ==
    [node |-> n, duration |-> duration, playback_pos |-> -1,
     pos |-> [active |-> 1 \in flags, has_start |-> FALSE,
              start |-> 0, end |-> pos_end],
     scale |-> [active |-> 4 \in flags, has_start |-> FALSE,
                start |-> 0, end |-> scale_end]]

\* inline double lerp(double pos, double total, BlendType blend) with
\* NO_BLEND: the progress, as numerator and denominator
lerp(pos, total) ==
    IF pos >= total THEN <<1, 1>>
    ELSE IF pos = 0 THEN <<0, 1>>
    ELSE <<pos, total>>

\* void AnimationType::reset()
AnimationType_reset(ad, nodes) ==
    [ad EXCEPT
       !.playback_pos = -1,
       !.pos.start = IF ad.pos.active /\ ~ad.pos.has_start
                     THEN nodes[ad.node].pos ELSE @,
       !.scale.start = IF ad.scale.active /\ ~ad.scale.has_start
                       THEN nodes[ad.node].scale ELSE @]

\* char Interval::active_animations()
active_animations(ad) ==
    (IF ad.pos.active THEN {1} ELSE {})
        \cup (IF ad.scale.active THEN {4} ELSE {})

\* void Interval::_update(const double prog)
Interval_update(ad, prog, nodes) ==
    [nodes EXCEPT
       ![ad.node].pos =
           IF ad.pos.active
           THEN ((ad.pos.end - ad.pos.start) * prog[1]) \div prog[2]
                    + ad.pos.start
           ELSE @,
       ![ad.node].scale =
           IF ad.scale.active
           THEN ((ad.scale.end - ad.scale.start) * prog[1]) \div prog[2]
                    + ad.scale.start
           ELSE @]

\* the part of Interval::step after the test of the flags
Interval_advance(ad, dt, nodes) ==
    LET playback_pos == (IF ad.playback_pos = -1 THEN 0 ELSE ad.playback_pos)
                            + dt
    IN  IF playback_pos >= ad.duration
        THEN [r |-> playback_pos - ad.duration,
              ad |-> [ad EXCEPT !.playback_pos = playback_pos],
              nodes |-> Interval_update(ad, <<1, 1>>, nodes)]
        ELSE [r |-> -1,
              ad |-> [ad EXCEPT !.playback_pos = playback_pos],
              nodes |-> Interval_update(ad, lerp(playback_pos, ad.duration),
                                        nodes)]

\* double Interval::step(const double dt, ActiveAnimationMap& aam)
Interval_step(ad, dt, aam, nodes) ==
    IF ad.node \in DOMAIN aam /\ aam[ad.node] \cap active_animations(ad) # {}
    THEN [r |-> -2, ad |-> ad, aam |-> aam, nodes |-> nodes]
    ELSE [r |-> Interval_advance(ad, dt, nodes).r,
          ad |-> Interval_advance(ad, dt, nodes).ad,
          aam |-> [n \in DOMAIN aam \cup {ad.node} |->
                      IF n = ad.node
                      THEN (IF n \in DOMAIN aam THEN aam[n] ELSE {})
                               \cup active_animations(ad)
                      ELSE aam[n]],
          nodes |-> Interval_advance(ad, dt, nodes).nodes]


\* AnimationManager: _anims and _anim_status by id; the ids, which the code
\* counts from 0, are counted from 1 here.  animated counts the calls of
\* animate
AnimationManager ==
    [_anims |-> <<>>, _anim_status |-> <<>>, _aam |-> <<>>,
     nodes |-> [n \in AnimNodes |-> AnimNode], animated |-> 0]

\* the loop of animate; _anims is ordered by std::greater<int>, so it runs
\* from the highest id down
RECURSIVE animate_loop(_, _, _)
animate_loop(m, dt, it) ==
    IF it = 0 THEN m
    ELSE IF m._anim_status[it] < 2 THEN animate_loop(m, dt, it - 1)
    ELSE LET started == IF m._anim_status[it] = 2
                        THEN AnimationType_reset(m._anims[it], m.nodes)
                        ELSE m._anims[it]
             stepped == Interval_step(started, dt, m._aam, m.nodes)
         IN  animate_loop(
                 [m EXCEPT
                    !._anims[it] = stepped.ad,
                    !._anim_status[it] =
                        IF stepped.r = -2 THEN 4
                        ELSE IF stepped.r >= 0 THEN 0
                        ELSE IF @ = 2 THEN 3 ELSE @,
                    !._aam = stepped.aam,
                    !.nodes = stepped.nodes],
                 dt, it - 1)

\* void AnimationManager::animate(const double dt)
animate(m, dt) == animate_loop([m EXCEPT !._aam = <<>>], dt, Len(m._anims))

Durations == {1, 2}

FlagSets == {{1}, {4}, {1, 4}}

InitAnimation ==
    /\ nd = ExtFreeList
    /\ node = <<>>
    /\ child_nodes = ExtFreeList
    /\ handles = [h \in Handles |-> NoHandle]
    /\ status = "running"
    /\ last = Call("init", 0, "ok", -1)
    /\ reparents = 0
    /\ written = {}
    /\ box = AnimationManager
    /\ quadtree = <<>>
    /\ calls = <<>>
    /\ sgdh = <<>>

\* a call on the AnimationManager that left it as m
Managed(op, a, m) ==
    /\ box' = m
    /\ last' = Call(op, a, "ok", -1)
    /\ UNCHANGED <<sgdh, nd, node, child_nodes, handles, status, reparents,
                   written, quadtree, calls>>

\* new_interval() and the set-up of the Interval it returns
NewInterval(n, duration, flags) ==
    /\ Len(box._anims) < MaxAnims
    /\ Managed("new_interval", Len(box._anims) + 1,
               [box EXCEPT
                  !._anims = Append(@, AnimationData(n, duration, flags,
                                        8 * (Len(box._anims) + 1),
                                        8 * (Len(box._anims) + 1) + 1)),
                  !._anim_status = Append(@, 0)])

\* void AnimationManager::play_interval(const int i_id)
PlayInterval(i_id) ==
    Managed("play_interval", i_id, [box EXCEPT !._anim_status[i_id] = 2])

\* void AnimationManager::stop_interval(const int i_id)
StopInterval(i_id) ==
    Managed("stop_interval", i_id, [box EXCEPT !._anim_status[i_id] = 0])

Animate(dt) ==
    /\ box.animated < MaxAnimates
    /\ Managed("animate", dt, [animate(box, dt) EXCEPT !.animated = @ + 1])

NextAnimation ==
    \/ \E n \in AnimNodes, duration \in Durations, flags \in FlagSets :
          NewInterval(n, duration, flags)
    \/ \E i_id \in 1..Len(box._anims) : PlayInterval(i_id)
    \/ \E i_id \in 1..Len(box._anims) : StopInterval(i_id)
    \/ Animate(1)

SpecAnimation == InitAnimation /\ [][NextAnimation]_vars

\* animations a and b of manager m change the same thing of the same node
Clash(m, a, b) ==
    /\ m._anims[a].node = m._anims[b].node
    /\ active_animations(m._anims[a]) \cap active_animations(m._anims[b]) # {}

\* what flag f stands for in node n
Field(nodes, n, f) == IF f = 1 THEN nodes[n].pos ELSE nodes[n].scale

\* the step leaves alone whatever of its node only animation a changes among
\* the animations that are not stopped or paused
Untouched(a) ==
    \A f \in active_animations(box._anims[a]) :
        (\A c \in 1..Len(box._anims) :
            \/ c = a
            \/ box._anim_status[c] < 2
            \/ box._anims[c].node # box._anims[a].node
            \/ f \notin active_animations(box._anims[c]))
        => Field(box'.nodes, box._anims[a].node, f)
               = Field(box.nodes, box._anims[a].node, f)

\* the playback position animation b is stepped from
Played(b) ==
    IF box._anim_status[b] = 2 \/ box._anims[b].playback_pos = -1 THEN 0
    ELSE box._anims[b].playback_pos

\* the step is a call of animate
Animating == last'.op = "animate" /\ box'.animated = box.animated + 1

(***************************************************************************)
(* C38: when animate() finds two playing animations that change the same   *)
(* thing of the same node, the one of the higher id is applied and the     *)
(* other gets status 4 without changing the node; and animate() leaves an  *)
(* animation of status 4 alone: it keeps its status and its playback       *)
(* position and does not change the node.                                  *)
(***************************************************************************)
C38_ConflictDeactivatesTheEarlierAnimation ==
    [][Animating =>
        /\ \A a, b \in 1..Len(box._anims) :
              (/\ a < b
               /\ box._anim_status[a] \in {2, 3}
               /\ box._anim_status[b] \in {2, 3}
               /\ Clash(box, a, b)
               /\ \A c \in (b + 1)..Len(box._anims) :
                     box._anim_status[c] < 2 \/ ~Clash(box, b, c))
              => /\ box'._anim_status[a] = 4
                 /\ box'._anim_status[b] # 4
                 /\ box'._anims[b].playback_pos = Played(b) + last'.a
                 /\ Untouched(a)
        /\ \A a \in 1..Len(box._anims) :
              box._anim_status[a] = 4
              => /\ box'._anim_status[a] = 4
                 /\ box'._anims[a] = box._anims[a]
                 /\ Untouched(a)]_vars


(***************************************************************************)
(* Sequence (animation.cpp 1125-1186).  Its members are copies of          *)
(* Intervals.  The sequence is held in box with the node it animates;      *)
(* steps counts the calls of step.                                         *)
(***************************************************************************)
Sequence == [_v |-> <<>>, _active |-> 0, _loop |-> FALSE]

\* void Sequence::reset()
Sequence_reset(sq, nodes) ==
    IF sq._v = <<>> THEN [out |-> "throw", sq |-> sq]
    ELSE [out |-> "ok",
          sq |-> [sq EXCEPT !._active = 0,
                            !._v[1] = AnimationType_reset(@, nodes)]]

\* the sub-steps a step of sequence sq is followed for: when as many were
\* made and the loop goes on, it has come back to a member in the state it
\* left it in and never ends
Fuel(sq) == 2 * Len(sq._v) + 1

\* the while loop of Sequence::step (1157-1176).  A sequence that was
\* stepped to its end and not reset has _active == _v.size(): _v[_active]
\* is then read past the end
RECURSIVE step_loop(_, _, _, _, _)
step_loop(sq, dt, aam, nodes, fuel) ==
    IF fuel = 0
    THEN [out |-> "hang", r |-> 0, sq |-> sq, aam |-> aam, nodes |-> nodes]
    ELSE IF sq._active >= Len(sq._v)
    THEN [out |-> "undefined", r |-> 0, sq |-> sq, aam |-> aam, nodes |-> nodes]
    ELSE LET stepped == Interval_step(sq._v[sq._active + 1], dt, aam, nodes)
             moved == [sq EXCEPT !._v[sq._active + 1] = stepped.ad]
             _active == IF sq._active + 1 = Len(sq._v) THEN 0 ELSE sq._active + 1
         IN  IF stepped.r < 0
             THEN [out |-> "done", r |-> stepped.r, sq |-> moved,
                   aam |-> stepped.aam, nodes |-> stepped.nodes]
             ELSE IF sq._active + 1 = Len(sq._v) /\ ~sq._loop
             THEN [out |-> "done", r |-> stepped.r,
                   sq |-> [moved EXCEPT !._active = @ + 1],
                   aam |-> stepped.aam, nodes |-> stepped.nodes]
             ELSE step_loop(
                      [moved EXCEPT
                         !._active = _active,
                         !._v[_active + 1] =
                             AnimationType_reset(moved._v[_active + 1],
                                                 stepped.nodes)],
                      dt, aam, stepped.nodes, fuel - 1)

\* double Sequence::step(const double dt, ActiveAnimationMap& aam)
Sequence_step(sq, dt, aam, nodes) ==
    IF sq._v = <<>>
    THEN [out |-> "throw", r |-> 0, sq |-> sq, aam |-> aam, nodes |-> nodes]
    ELSE step_loop(sq, dt, aam, nodes, Fuel(sq))

InitSequence ==
    /\ nd = ExtFreeList
    /\ node = <<>>
    /\ child_nodes = ExtFreeList
    /\ handles = [h \in Handles |-> NoHandle]
    /\ status = "running"
    /\ last = Call("init", 0, "ok", -1)
    /\ reparents = 0
    /\ written = {}
    /\ box = [sq |-> Sequence, nodes |-> [n \in AnimNodes |-> AnimNode],
              steps |-> 0]
    /\ quadtree = <<>>
    /\ calls = <<>>
    /\ sgdh = <<>>

\* a call on the Sequence that gave out and left b in box
Sequenced(op, a, out, b) ==
    /\ status = "running"
    /\ box' = b
    /\ status' = Stopped(out)
    /\ last' = Call(op, a, out, -1)
    /\ UNCHANGED <<sgdh, nd, node, child_nodes, handles, reparents, written,
                   quadtree, calls>>

MemberDurations == {0, 1, 2}

Dts == {0, 1}

\* the maps step is handed: an empty one, and one in which the position of
\* the node is taken
Aams == {<<>>, [n \in AnimNodes |-> {1}]}

\* void Sequence::append(std::unique_ptr<AnimationBase>& a), a being an
\* Interval of the given duration and flags
SequenceAppend(duration, flags) ==
    /\ Len(box.sq._v) < MaxMembers
    /\ Sequenced("append", duration, "ok",
                 [box EXCEPT !.sq._v =
                     Append(@, AnimationData(0, duration, flags,
                                             8 * (Len(box.sq._v) + 1),
                                             8 * (Len(box.sq._v) + 1) + 1))])

\* void Sequence::loop(const bool l)
SequenceLoop(l) ==
    /\ box.sq._loop # l
    /\ Sequenced("loop", IF l THEN 1 ELSE 0, "ok", [box EXCEPT !.sq._loop = l])

SequenceReset ==
    Sequenced("reset", 0, Sequence_reset(box.sq, box.nodes).out,
              [box EXCEPT !.sq = Sequence_reset(box.sq, box.nodes).sq])

SequenceStep(dt, aam) ==
    /\ box.steps < MaxSteps
    /\ \E stepped \in {Sequence_step(box.sq, dt, aam, box.nodes)} :
          Sequenced("step", dt, stepped.out,
                    [sq |-> stepped.sq, nodes |-> stepped.nodes,
                     steps |-> box.steps + 1])

NextSequence ==
    \/ \E duration \in MemberDurations, flags \in FlagSets :
          SequenceAppend(duration, flags)
    \/ \E l \in BOOLEAN : SequenceLoop(l)
    \/ SequenceReset
    \/ \E dt \in Dts, aam \in Aams : SequenceStep(dt, aam)

SpecSequence == InitSequence /\ [][NextSequence]_vars

(***************************************************************************)
(* C39: a call of step of a sequence that is not empty returns, whatever   *)
(* dt >= 0 it is handed, also when the sequence loops and every member     *)
(* finishes within dt.                                                     *)
(***************************************************************************)
C39_SequenceStepReturns ==
    (last.op = "step" /\ box.sq._v # <<>>) => last.res # "hang"


====
